---- MODULE Spec2Model ----
(***************************************************************************)
(* Model of the AI assistant pipeline of MindLedger                        *)
(* (src/api/ai_assistant): the sensitivity classifier, the SQL engine's    *)
(* executor, and the chat orchestrator with its two-tier response cache.   *)
(***************************************************************************)
EXTENDS Integers, Sequences, FiniteSets, TLC

(***************************************************************************)
(* Bounds                                                                  *)
(***************************************************************************)
MaxWords == 16
MaxResults == 2
MaxChatResults == 1
max_rows == 2
MaxProduced == 4
NumOwners == 2
MaxRequests == 2
MaxSets == 3
NumItems == 1
MaxIndexOps == 3
MaxStored == 1
NumWriters == 2

(***************************************************************************)
(* Sensitivity classifier (llm_router/sensitivity.py)                      *)
(***************************************************************************)
BAIXA == "baixa"
MEDIA == "media"
ALTA == "alta"
Sensibilidade == {BAIXA, MEDIA, ALTA}

FINANCEIRO == "financeiro"
SEGURANCA == "seguranca"
LEITURA == "leitura"
TipoConteudo == {FINANCEIRO, SEGURANCA, LEITURA}

GREETING == "greeting"
SIMPLE == "simple"
MODERATE == "moderate"
COMPLEX == "complex"
QueryComplexity == {GREETING, SIMPLE, MODERATE, COMPLEX}

COMPLEX_KEYWORDS ==
    {"analise", "compare", "explique", "por que", "porque",
     "qual a diferenca", "resuma", "sintetize", "avalie",
     "quanto gastei", "total", "soma", "media", "tendencia",
     "previsao", "planeje", "sugira", "recomende"}

SIMPLE_KEYWORDS ==
    {"qual", "quais", "quando", "onde", "quem",
     "existe", "tem", "ha", "mostre", "liste"}

SECURITY_KEYWORDS ==
    {"senha", "senhas", "password", "credencial", "login",
     "usuario", "cartao", "cvv", "codigo", "seguranca",
     "arquivo", "secreto", "privado"}

GREETING_KEYWORDS ==
    {"oi", "ola", "bom dia", "boa tarde", "boa noite",
     "hey", "hello", "hi", "e ai", "eai", "tudo bem",
     "como vai", "opa", "fala", "salve", "obrigado",
     "obrigada", "valeu", "vlw", "brigado", "tchau",
     "ate mais", "ate logo", "ajuda", "me ajuda",
     "o que voce faz", "quem e voce", "pode me ajudar"}

\* The keywords a modelled question may contain.  None of them is a
\* substring of another keyword, so each is present independently.
Vocabulary == {"analise", "tendencia", "liste", "password", "hello"}

\* A question is abstracted to what the classifier reads from the lowered
\* text: which keywords occur in it (substring test) and how many
\* whitespace-separated words it has.  An empty text contains no keyword.
Questions ==
    { q \in [kws : SUBSET Vocabulary, words : 0..MaxWords] :
        q.words = 0 => q.kws = {} }

\* A retrieved item, as far as the classifier reads it.
ResultItems == [sensibilidade : Sensibilidade, tipo : TipoConteudo]

RECURSIVE SeqsUpTo(_, _)
SeqsUpTo(S, n) ==
    IF n = 0 THEN {<<>>}
    ELSE LET shorter == SeqsUpTo(S, n - 1)
         IN  shorter \cup { Append(s, x) : s \in { t \in shorter : Len(t) = n - 1 }, x \in S }

ResultLists == SeqsUpTo(ResultItems, MaxResults)

\* sensitivity_order.get(level, 0)
sensitivity_order(level) ==
    CASE level = BAIXA -> 0
      [] level = MEDIA -> 1
      [] level = ALTA -> 2
      [] OTHER -> 0

RECURSIVE MaxSensLoop(_, _, _, _)
MaxSensLoop(results, i, max_level, max_order) ==
    IF i > Len(results) THEN max_level
    ELSE LET level == results[i].sensibilidade
             order == sensitivity_order(level)
         IN  IF order > max_order
             THEN MaxSensLoop(results, i + 1, level, order)
             ELSE MaxSensLoop(results, i + 1, max_level, max_order)

\* A slip that keeps the level of the last result instead of the maximum.
GetMaxSensitivityLast(results) ==
    IF results = <<>> THEN BAIXA ELSE results[Len(results)].sensibilidade

_get_max_sensitivity(results) ==
    IF results = <<>> THEN BAIXA ELSE MaxSensLoop(results, 1, BAIXA, 0)

_has_security_content(results) ==
    \E i \in 1..Len(results) : results[i].tipo = SEGURANCA

_is_greeting(query) ==
    IF query.words <= 5 THEN query.kws \cap GREETING_KEYWORDS # {} ELSE FALSE

\* A slip that calls a question complex by its length alone.
ClassifyComplexityByLength(query) ==
    IF _is_greeting(query) THEN GREETING
    ELSE IF query.words > 15 THEN COMPLEX
    ELSE IF query.kws \cap SIMPLE_KEYWORDS # {} /\ query.words < 10 THEN SIMPLE
    ELSE MODERATE

_classify_complexity(query) ==
    IF _is_greeting(query) THEN GREETING
    ELSE LET complex_count == Cardinality(query.kws \cap COMPLEX_KEYWORDS)
             simple_count == Cardinality(query.kws \cap SIMPLE_KEYWORDS)
             word_count == query.words
         IN  IF complex_count >= 2 \/ (complex_count >= 1 /\ word_count > 15)
             THEN COMPLEX
             ELSE IF simple_count >= 1 /\ word_count < 10
                  THEN SIMPLE
                  ELSE MODERATE

\* A slip that looks for the Portuguese words only.
MentionsSecurityPortugueseOnly(query) == query.kws \cap {"senha", "senhas"} # {}

_mentions_security(query) == query.kws \cap SECURITY_KEYWORDS # {}

\* A slip that lets any complex question go to the cloud, whatever was found.
ShouldUseLocalComplexFirst(max_sensitivity, has_security, mentions_security, complexity) ==
    IF complexity = COMPLEX
    THEN <<FALSE, "Query complexa com baixa sensibilidade">>
    ELSE IF max_sensitivity = ALTA \/ has_security \/ mentions_security
         THEN <<TRUE, "Dados de alta sensibilidade detectados">>
         ELSE <<TRUE, "Preferencia padrao por privacidade">>

_should_use_local(max_sensitivity, has_security, mentions_security, complexity) ==
    IF max_sensitivity = ALTA
    THEN <<TRUE, "Dados de alta sensibilidade detectados">>
    ELSE IF has_security
    THEN <<TRUE, "Conteudo do modulo de seguranca detectado">>
    ELSE IF mentions_security
    THEN <<TRUE, "Pergunta menciona topicos de seguranca">>
    ELSE IF max_sensitivity = MEDIA /\ complexity = SIMPLE
    THEN <<TRUE, "Sensibilidade media com query simples">>
    ELSE IF complexity = COMPLEX /\ max_sensitivity = BAIXA
    THEN <<FALSE, "Query complexa com baixa sensibilidade">>
    ELSE <<TRUE, "Preferencia padrao por privacidade">>

analyze(query, results) ==
    LET max_sensitivity == _get_max_sensitivity(results)
        has_security == _has_security_content(results)
        complexity == _classify_complexity(query)
        mentions_security == _mentions_security(query)
        decision == _should_use_local(max_sensitivity, has_security,
                                      mentions_security, complexity)
    IN  [max_sensitivity |-> max_sensitivity,
         has_security_content |-> has_security,
         query_complexity |-> complexity,
         requires_local |-> decision[1],
         reason |-> decision[2]]

NoAnalysis ==
    [max_sensitivity |-> "none", has_security_content |-> FALSE,
     query_complexity |-> "none", requires_local |-> TRUE, reason |-> "none"]

(***************************************************************************)
(* SQL statements and the relational store (query_engine/schema.py)        *)
(***************************************************************************)
Owners == 1..NumOwners

\* Tables of the known schema that a modelled statement may read, and the
\* name a generator may invent.
Tables == {"expenses_expense", "library_book", "security_password"}
UNKNOWN_TABLE == "no_such_table"

\* The module a table of the schema belongs to.
TableTipo(table) ==
    CASE table = "expenses_expense" -> FINANCEIRO
      [] table = "library_book" -> LEITURA
      [] table = "security_password" -> SEGURANCA
      [] OTHER -> "none"

\* A statement, as far as validation and execution read it: the table it
\* selects from, whether a write/DDL keyword occurs in its text, whether it
\* selects a column flagged sensitive, the owner ids its WHERE clause
\* requires (conjunctively).
Statements ==
    [table : Tables \cup {UNKNOWN_TABLE}, write_kw : BOOLEAN,
     sensitive_col : BOOLEAN, owner_preds : SUBSET Owners]

NoStatement ==
    [table |-> "none", write_kw |-> FALSE, sensitive_col |-> FALSE,
     owner_preds |-> {}]

(***************************************************************************)
(* Query executor (query_engine/executor.py)                               *)
(***************************************************************************)
DEFAULT_TIMEOUT == 10

\* Session value of statement_timeout: 0 is the server default (RESET).
SERVER_DEFAULT == 0

Min(a, b) == IF a < b THEN a ELSE b

\* A slip that fetches exactly max_rows, losing the probe row.
fetchmany_exact(produced) == Min(produced, max_rows)

\* rows = cursor.fetchmany(self.max_rows + 1)
fetchmany(produced) == Min(produced, max_rows + 1)

\* truncated = len(rows) > self.max_rows; rows = rows[:self.max_rows]
MakeQueryResult(sql, fetched) ==
    [sql |-> sql,
     row_count |-> IF fetched > max_rows THEN max_rows ELSE fetched,
     truncated |-> fetched > max_rows]

NoResult == [sql |-> NoStatement, row_count |-> 0, truncated |-> FALSE]

\* A slip that resets the timeout on the success path only.
ResetOnSuccessOnly(current, pending) ==
    IF pending = "none" THEN SERVER_DEFAULT ELSE current

\* finally: cursor.execute("RESET statement_timeout")
ResetStatementTimeout(current, pending) == SERVER_DEFAULT

\* An exception: its class and its error_type attribute.
NoError == [class |-> "none", error_type |-> "none"]

MakeError(class, error_type) == [class |-> class, error_type |-> error_type]

\* The classes an exception is an instance of (QueryTimeoutError derives
\* from QueryExecutionError).
Ancestors(class) ==
    CASE class = "none" -> {}
      [] class = "QueryTimeoutError" ->
            {"QueryTimeoutError", "QueryExecutionError", "Exception"}
      [] OTHER -> {class, "Exception"}

\* The except clauses of execute: which error the pending exception becomes.
ExecuteError(pending) ==
    CASE pending = "OperationalError:timeout" -> MakeError("QueryTimeoutError", "timeout")
      [] pending = "OperationalError" -> MakeError("QueryExecutionError", "database_error")
      [] pending = "Exception" -> MakeError("QueryExecutionError", "unexpected_error")
      [] OTHER -> NoError

RunOutcomes == {"ok", "timeout", "operational_error", "connection_lost", "other_error"}

(***************************************************************************)
(* SQL validator (query_engine/validator.py, not part of the sources:      *)
(* modelled from its specified contract)                                   *)
(***************************************************************************)
\* Checks (a) to (c), in order: the first rule the statement breaks.
ValidationErrorOf(sql) ==
    IF sql.write_kw THEN "forbidden_keyword"
    ELSE IF sql.table \notin Tables THEN "unknown_table"
    ELSE IF sql.sensitive_col THEN "sensitive_column"
    ELSE "none"

\* Rewrite (d): the owner predicate bound to the caller is added to the
\* WHERE clause.  (Rewrite (e), the row cap, is not modelled: the executor
\* enforces its own cap.)
Sanitize(sql, owner_id) ==
    [sql EXCEPT !.owner_preds = @ \cup {owner_id}]

(***************************************************************************)
(* Response cache (cache/service.py, cache/semantic.py)                    *)
(***************************************************************************)
\* Similarities are kept in ten-thousandths: 0.92 is 9200.
SIMILARITY_THRESHOLD == 9200
SemMaxEntries == 2

\* The questions the chat service is asked in the model.  surface tells how
\* the text is typed: "plain" is lower case without surrounding blanks,
\* "upper_padded" is the same words in upper case followed by a blank.
QComplex == [kws |-> {"analise", "tendencia"}, words |-> 8, surface |-> "plain"]
QComplexPassword ==
    [kws |-> {"analise", "tendencia", "password"}, words |-> 9, surface |-> "plain"]
ChatQuestions == {QComplex, QComplexPassword}

\* Two more texts for the cache: QComplex typed in upper case, and another
\* question.
QComplexUpper == [QComplex EXCEPT !.surface = "upper_padded"]
QTrend == [kws |-> {"tendencia"}, words |-> 3, surface |-> "plain"]
CacheQuestions == {QComplex, QComplexUpper, QComplexPassword, QTrend}

\* query.lower().strip()
Normalize(query) == [query EXCEPT !.surface = "plain"]

\* The embedding service is an external text -> vector function; its
\* vectors are fixed here by a table.  All four have norm 25, and the
\* cosines are 0.92 (QComplex with QComplexPassword and with QTrend),
\* 0.96 (QComplex with QComplexUpper) and 0.6928 (QComplexPassword with
\* QTrend).
Embed(query) ==
    IF query = QComplex THEN <<25, 0, 0, 0>>
    ELSE IF query = QComplexUpper THEN <<24, 7, 0, 0>>
    ELSE IF query = QComplexPassword THEN <<23, 8, 4, 4>>
    ELSE IF query = QTrend THEN <<23, -8, -4, -4>>
    ELSE <<0, 0, 0, 0>>

RECURSIVE Dot(_, _, _)
Dot(a, b, i) == IF i > Len(a) THEN 0 ELSE a[i] * b[i] + Dot(a, b, i + 1)

RECURSIVE SumAbs(_, _)
SumAbs(a, i) ==
    IF i > Len(a) THEN 0
    ELSE (IF a[i] < 0 THEN -a[i] ELSE a[i]) + SumAbs(a, i + 1)

\* np.linalg.norm, exact on the vectors of the table (the norm lies between
\* 0 and the sum of the absolute values of the components)
Norm(a) ==
    LET sq == Dot(a, a, 1)
    IN  CHOOSE r \in 0..SumAbs(a, 1) : r * r <= sq /\ sq < (r + 1) * (r + 1)

\* _cosine_similarity, in ten-thousandths
CosineSimilarity(embedding1, embedding2) ==
    LET dot_product == Dot(embedding1, embedding2, 1)
        norm_a == Norm(embedding1)
        norm_b == Norm(embedding2)
    IN  IF norm_a = 0 \/ norm_b = 0 THEN 0
        ELSE (dot_product * 10000) \div (norm_a * norm_b)

NoPayload == [max_sensitivity |-> "none", history |-> FALSE]

\* CacheKeyGenerator.query_key: normalized question, owner, filter signature.
QueryKey(query, owner_id, filters_hash) ==
    [query |-> Normalize(query), owner |-> owner_id, filters_hash |-> filters_hash]

\* The exact tier is a set of (key, payload) pairs with at most one pair
\* per key.
ExactLookup(exact, key) ==
    IF \E e \in exact : e.key = key
    THEN (CHOOSE e \in exact : e.key = key).payload
    ELSE NoPayload

ExactStore(exact, key, payload) ==
    { e \in exact : e.key # key } \cup {[key |-> key, payload |-> payload]}

\* A slip that lets a later entry with an equal score replace the match.
AcceptsLastSeen(score, best_score) ==
    score >= SIMILARITY_THRESHOLD /\ score >= best_score

\* The test of the scan: score >= threshold and score > best_score
Accepts(score, best_score) ==
    score >= SIMILARITY_THRESHOLD /\ score > best_score

RECURSIVE SemanticScan(_, _, _, _, _, _)
SemanticScan(index, i, query_embedding, filters_hash, best_match, best_score) ==
    IF i > Len(index) THEN <<best_match, best_score>>
    ELSE LET entry == index[i]
             score == CosineSimilarity(query_embedding, entry.embedding)
         IN  IF entry.filters_hash # filters_hash
             THEN SemanticScan(index, i + 1, query_embedding, filters_hash,
                               best_match, best_score)
             ELSE IF Accepts(score, best_score)
                  THEN SemanticScan(index, i + 1, query_embedding, filters_hash,
                                    entry.response, score)
                  ELSE SemanticScan(index, i + 1, query_embedding, filters_hash,
                                    best_match, best_score)

\* A slip that scans with the filter signature of the first entry.
SemanticGetAnyFilter(index, query_embedding, filters_hash) ==
    IF index = <<>> THEN <<NoPayload, 0>>
    ELSE SemanticScan(index, 1, query_embedding, index[1].filters_hash, NoPayload, 0)

\* SemanticCache.get: the best entry with the same filter signature.
SemanticGet(index, query_embedding, filters_hash) ==
    IF index = <<>> THEN <<NoPayload, 0>>
    ELSE SemanticScan(index, 1, query_embedding, filters_hash, NoPayload, 0)

\* A slip that removes nothing before the new entry is appended.
SelectSeqKeepAll(seq, query) == seq

\* the entries of another question: e.query.lower().strip() != query.lower().strip()
SelectSeq2(seq, query) ==
    LET Keep(e) == Normalize(e.query) # Normalize(query) IN SelectSeq(seq, Keep)

\* A slip that keeps the first max_entries entries instead of the last.
TrimIndexOldest(entries) ==
    IF Len(entries) <= SemMaxEntries THEN entries
    ELSE SubSeq(entries, 1, SemMaxEntries)

\* _save_index: entries[-max_entries:]
TrimIndex(entries) ==
    IF Len(entries) <= SemMaxEntries THEN entries
    ELSE SubSeq(entries, Len(entries) - SemMaxEntries + 1, Len(entries))

\* SemanticCache.set: replace by question, append, trim, save.
SemanticSet(index, query, query_embedding, response, filters_hash) ==
    TrimIndex(Append(SelectSeq2(index, query),
                     [query |-> query, embedding |-> query_embedding,
                      response |-> response, filters_hash |-> filters_hash]))

\* A slip that leaves the list in place.
SemanticInvalidateNothing(index, owner_id) == index

\* SemanticCache.invalidate: the owner's key is deleted.
SemanticInvalidate(index, owner_id) == [index EXCEPT ![owner_id] = <<>>]

(***************************************************************************)
(* Chat service (chat/service.py)                                          *)
(***************************************************************************)
\* A slip that leaves execution errors out of the except clause of query.
QueryCatchesNoExecution(err) ==
    \E c \in {"SQLGenerationError", "SQLValidationError"} : c \in Ancestors(err.class)

\* except (SQLGenerationError, SQLValidationError, QueryExecutionError)
QueryCatches(err) ==
    \E c \in {"SQLGenerationError", "SQLValidationError", "QueryExecutionError"} :
        c \in Ancestors(err.class)

\* A slip that executes the generator's statement instead of the sanitized one.
ExecutedStatementRaw(generated, sanitized) == generated

\* query_executor.execute(validation_result.sanitized_sql)
ExecutedStatement(generated, sanitized) == sanitized

(***************************************************************************)
(* Inference router (llm_router/router.py, not part of the sources:        *)
(* modelled from its specified contract)                                   *)
(***************************************************************************)
\* The router asks the sensitivity classifier and names the provider: the
\* local one when the analysis requires it, the remote one otherwise.
RouterChoice(query, rs) ==
    LET analysis == analyze(query, rs)
    IN  [chosen |-> IF analysis.requires_local THEN "ollama" ELSE "groq",
         requires_local |-> analysis.requires_local,
         max_sensitivity |-> analysis.max_sensitivity,
         decision |-> IF analysis.requires_local THEN "local" ELSE "cloud"]

\* The providers the router calls: the chosen one if it is available, and
\* never the other one.
RouterCalls(chosen, p) == IF p = "unavailable" THEN {} ELSE {chosen}

\* The failure the router raises when the chosen provider cannot answer.
RouterError(chosen, p) ==
    IF p = "unavailable"
    THEN MakeError("ProviderUnavailableError", chosen)
    ELSE MakeError("ProviderError", chosen)

\* A slip that retries a failed generation on the other provider.
FallbackToOther(chosen) == {IF chosen = "ollama" THEN "groq" ELSE "ollama"}

\* _handle_rag_query calls router.generate once, with no handler around it:
\* the providers tried after the chosen one failed.
FallbackProviders(chosen) == {}

\* A slip that forgets the sensitivity and history conditions.
ShouldCacheAlways(use_cache, max_sensitivity, history) == use_cache

\* if use_cache and routing_ctx.max_sensitivity != 'alta' and not conversation_history
ShouldCache(use_cache, max_sensitivity, history) ==
    use_cache /\ max_sensitivity # ALTA /\ ~history

\* A slip that lets a failure of the cache store escape _cache_response.
CacheResponseRaises(raised) ==
    IF raised THEN MakeError("CacheError", "cache_set") ELSE NoError

\* _cache_response: try ... except Exception: log and continue.
CacheResponseError(raised) == NoError

\* _check_cache: try ... except Exception: log, then return None.
CheckCacheError(raised) == NoError

ChatResultLists == SeqsUpTo(ResultItems, MaxChatResults)

NoRequest ==
    [question |-> [kws |-> {}, words |-> 0], owner |-> 0, use_cache |-> FALSE,
     history |-> FALSE, use_sql |-> FALSE]

NoOutcome ==
    [kind |-> "none", error |-> NoError, execution_mode |-> "none",
     routing_decision |-> "none", provider |-> "none", cached |-> FALSE,
     max_sensitivity |-> "none"]

ErrorOutcome(err) == [NoOutcome EXCEPT !.kind = "error", !.error = err]

NoRouting ==
    [chosen |-> "none", failed |-> FALSE, requires_local |-> TRUE]

ProviderOutcomes == {"ok", "unavailable", "error"}

VARIABLES
    an_query,       \* the question handed to analyze
    an_results,     \* the retrieved results handed to analyze
    an_out,         \* the SensitivityAnalysis it returned
    an_done,        \* TRUE once analyze has returned
    ex_pc,          \* position inside QueryExecutor.execute
    ex_sql,         \* the statement being executed
    ex_caller,      \* who called execute: "direct" or "chat"
    ex_produced,    \* rows the statement produced on the server
    ex_outcome,     \* what the server did with the statement
    ex_pending,     \* exception in flight inside the try block
    ex_set,         \* TRUE once this call has set statement_timeout
    ex_result,      \* the QueryResult returned
    ex_error,       \* the exception raised to the caller
    statement_timeout,  \* session setting of the connection
    conn_alive,     \* FALSE once the connection was lost
    pc,             \* position of the request inside ChatService.query
    req,            \* arguments of the request being handled
    n_requests,     \* requests accepted so far
    gen_sql,        \* statement returned by the SQL generator
    sql_error,      \* class of the exception raised on the SQL path, if any
    results,        \* results of the retrieval service
    routing,        \* provider chosen by the router and how its call went
    provider_calls, \* generation calls made for this request
    remote_sent,    \* stored content sent to the remote provider
    cache_fault,    \* TRUE once a cache round trip failed in this request
    outcome,        \* what the caller of query receives
    exact_cache,    \* exact tier of the response cache
    semantic_index, \* semantic tier: one list per owner
    sc_last,        \* the last SemanticCache.get: its arguments and result
    sc_log,         \* the SemanticCache.set calls since the owner's last invalidation
    sc_invalidated, \* owners invalidated and not set since
    sc_sets,        \* SemanticCache.set calls made so far
    entities,       \* the source entities (rows of expenses.Expense), by id
    content_embeddings, \* the ContentEmbedding records
    ix_last,        \* the last index_single call: its arguments and result
    ix_changes,     \* per owner, the changes made to the owner's records
    ix_ops,         \* saves, deletions and index_single calls made so far
    rt_last,        \* the last search: its arguments and the results returned
    rw_pc,          \* position inside QueryExecutor.execute_with_retry
    rw_max_retries, \* its max_retries argument
    rw_attempt,     \* the loop variable attempt
    rw_last_error,  \* the local last_error
    rw_executions,  \* calls of execute made by this call
    rw_errors,      \* the exceptions execute raised to this call, in order
    rw_outcome,     \* what execute_with_retry returned or raised
    sv_last,        \* the last CacheService.get: its arguments and result
    sv_history,     \* the CacheService.set and invalidate_content calls, in order
    cw_pc,          \* per request, its position inside SemanticCache.set
    cw_args,        \* per request, the arguments of its set call
    cw_local,       \* per request, the list its _get_index returned
    cw_written,     \* the entries the completed set calls stored
    cw_before,      \* the entries stored before an invalidate
    cw_invalidated, \* TRUE once invalidate was called
    cw_sets,        \* set calls begun so far
    cw_last,        \* the last concurrent get: its arguments and result
    qi_pc,          \* the position of a call of the question endpoint
    qi_question,    \* the words of the question sent to the endpoint
    qi_member_id,   \* the id of the member the caller is
    qi_result,      \* what QueryInterpreter.interpret returned or raised
    qi_data         \* the rows the endpoint read for its response

an_vars == <<an_query, an_results, an_out, an_done>>

ex_vars == <<ex_pc, ex_sql, ex_caller, ex_produced, ex_outcome, ex_pending,
             ex_set, ex_result, ex_error, statement_timeout, conn_alive>>

rq_vars == <<pc, req, n_requests, gen_sql, sql_error, results, routing,
             provider_calls, remote_sent, cache_fault, outcome>>

cache_vars == <<exact_cache, semantic_index>>

store_vars == <<sc_last, sc_log, sc_invalidated, sc_sets,
                entities, content_embeddings, ix_last, ix_changes, ix_ops, rt_last>>

sc_vars == <<sc_last, sc_log, sc_invalidated, sc_sets>>

ix_vars == <<entities, content_embeddings, ix_last, ix_changes, ix_ops>>

retry_vars == <<rw_pc, rw_max_retries, rw_attempt, rw_last_error, rw_executions,
                rw_errors, rw_outcome>>

\* The variables of the sections that follow the stores.
ext_vars == <<rw_pc, rw_max_retries, rw_attempt, rw_last_error, rw_executions,
              rw_errors, rw_outcome, sv_last, sv_history,
              cw_pc, cw_args, cw_local, cw_written, cw_before, cw_invalidated,
              cw_sets, cw_last,
              qi_pc, qi_question, qi_member_id, qi_result, qi_data>>

qi_vars == <<qi_pc, qi_question, qi_member_id, qi_result, qi_data>>

sv_vars == <<sv_last, sv_history>>

cw_vars == <<cw_pc, cw_args, cw_local, cw_written, cw_before, cw_invalidated,
             cw_sets, cw_last>>

vars == <<an_query, an_results, an_out, an_done,
          ex_pc, ex_sql, ex_caller, ex_produced, ex_outcome, ex_pending,
          ex_set, ex_result, ex_error, statement_timeout, conn_alive,
          pc, req, n_requests, gen_sql, sql_error, results, routing,
          provider_calls, remote_sent, cache_fault, outcome,
          exact_cache, semantic_index,
          sc_last, sc_log, sc_invalidated, sc_sets,
          entities, content_embeddings, ix_last, ix_changes, ix_ops, rt_last,
          rw_pc, rw_max_retries, rw_attempt, rw_last_error, rw_executions,
          rw_errors, rw_outcome, sv_last, sv_history,
          cw_pc, cw_args, cw_local, cw_written, cw_before, cw_invalidated,
          cw_sets, cw_last,
          qi_pc, qi_question, qi_member_id, qi_result, qi_data>>

AnalyzeIdle ==
    /\ an_query = [kws |-> {}, words |-> 0]
    /\ an_results = <<>>
    /\ an_out = NoAnalysis
    /\ an_done = FALSE

ExecIdle ==
    /\ ex_pc = "idle"
    /\ ex_sql = NoStatement
    /\ ex_caller = "none"
    /\ ex_produced = 0
    /\ ex_outcome = "none"
    /\ ex_pending = "none"
    /\ ex_set = FALSE
    /\ ex_result = NoResult
    /\ ex_error = NoError
    /\ statement_timeout = SERVER_DEFAULT
    /\ conn_alive = TRUE

RequestIdle ==
    /\ pc = "idle"
    /\ req = NoRequest
    /\ gen_sql = NoStatement
    /\ sql_error = "none"
    /\ results = <<>>
    /\ routing = NoRouting
    /\ provider_calls = {}
    /\ remote_sent = {}
    /\ cache_fault = FALSE
    /\ outcome = NoOutcome

ChatIdle ==
    /\ RequestIdle
    /\ n_requests = 0
    /\ exact_cache = {}
    /\ semantic_index = [o \in Owners |-> <<>>]

NoLookup == [owner |-> 0, embedding |-> <<>>, filters_hash |-> "",
             response |-> NoPayload, score |-> 0]

Items == 1..NumItems

NoEntity == [status |-> "absent", version |-> 0, owner |-> 0]

NoRecord == [content_type |-> "none", content_id |-> 0, owner |-> 0,
             is_indexed |-> FALSE, version |-> 0, generation |-> 0]

NoIndexCall == [content_type |-> "none", content_id |-> 0, owner |-> 0,
                force |-> FALSE, source_exists |-> FALSE, before |-> NoRecord,
                generated |-> FALSE, embed_ok |-> FALSE, returned |-> NoRecord,
                after |-> NoRecord]

\* RetrievalFilter: an empty set stands for None (and for an empty list),
\* the date 0 for None.
NoFilter == [tipos |-> {}, sensibilidades |-> {}, tags |-> {}, content_types |-> {},
             data_inicio |-> 0, data_fim |-> 0]

NoSearch == [owner |-> 0, filters |-> NoFilter, top_k |-> 0, variant |-> "none",
             results |-> <<>>]

NoServiceGet ==
    [owner |-> 0, query |-> [kws |-> {}, words |-> 0], filters_hash |-> "",
     response |-> NoPayload, cache_type |-> "none"]

Writers == 1..NumWriters

NoSetCall == [query |-> [kws |-> {}, words |-> 0], filters_hash |-> "", stamp |-> 0]

\* No request is inside SemanticCache.set and none was.
WritersIdle ==
    /\ cw_pc = [w \in Writers |-> "idle"]
    /\ cw_args = [w \in Writers |-> NoSetCall]
    /\ cw_local = [w \in Writers |-> <<>>]
    /\ cw_written = {}
    /\ cw_before = {}
    /\ cw_invalidated = FALSE
    /\ cw_sets = 0
    /\ cw_last = NoLookup

NoQueryResult == [kind |-> "none", module |-> "", table |-> "", owner_filter |-> FALSE, params |-> <<>>]

\* No question is at the endpoint.
InterpretIdle ==
    /\ qi_pc = "idle"
    /\ qi_question = {}
    /\ qi_member_id = 0
    /\ qi_result = NoQueryResult
    /\ qi_data = {}

\* No call of CacheService is open and none was made.
ServiceIdle ==
    /\ sv_last = NoServiceGet
    /\ sv_history = <<>>

\* No call of execute_with_retry is open.
RetryIdle ==
    /\ rw_pc = "idle"
    /\ rw_max_retries = 0
    /\ rw_attempt = 0
    /\ rw_last_error = NoError
    /\ rw_executions = 0
    /\ rw_errors = <<>>
    /\ rw_outcome = [kind |-> "none", error |-> NoError, result |-> NoResult]

StoreIdle ==
    /\ InterpretIdle
    /\ RetryIdle
    /\ ServiceIdle
    /\ WritersIdle
    /\ rt_last = NoSearch
    /\ sc_last = NoLookup
    /\ sc_log = <<>>
    /\ sc_invalidated = {}
    /\ sc_sets = 0
    /\ entities = [i \in Items |-> NoEntity]
    /\ content_embeddings = {}
    /\ ix_last = NoIndexCall
    /\ ix_changes = [o \in Owners |-> 0]
    /\ ix_ops = 0

(***************************************************************************)
(* Specification of the classifier: analyze applied to every bounded input *)
(***************************************************************************)
AnalyzeInit ==
    /\ an_query \in Questions
    /\ an_results \in ResultLists
    /\ an_out = NoAnalysis
    /\ an_done = FALSE
    /\ ExecIdle
    /\ ChatIdle
    /\ StoreIdle

AnalyzeCall ==
    /\ ~an_done
    /\ an_out' = analyze(an_query, an_results)
    /\ an_done' = TRUE
    /\ UNCHANGED <<an_query, an_results>>
    /\ UNCHANGED <<ex_vars, rq_vars, cache_vars, store_vars, ext_vars>>

AnalyzeNext == AnalyzeCall

SpecAnalyze == AnalyzeInit /\ [][AnalyzeNext]_vars

(***************************************************************************)
(* Specification of the classifier over the results the store can hand it: *)
(* sensibilidade is a text column of the record, read as it is stored.     *)
(***************************************************************************)
\* The values of the column: the three levels, a value that is none of
\* them, and no value.
StoredSensibilidade == Sensibilidade \cup {"critica", "missing"}

StoredResultItems == [sensibilidade : StoredSensibilidade, tipo : TipoConteudo]

StoredResultLists == SeqsUpTo(StoredResultItems, MaxResults)

AnalyzeStoredInit ==
    /\ an_query \in Questions
    /\ an_results \in StoredResultLists
    /\ an_out = NoAnalysis
    /\ an_done = FALSE
    /\ ExecIdle
    /\ ChatIdle
    /\ StoreIdle

SpecAnalyzeStored == AnalyzeStoredInit /\ [][AnalyzeNext]_vars

(***************************************************************************)
(* QueryExecutor.execute, one action per round trip to the store.          *)
(* The connection runs in autocommit mode (Django's default): a failed     *)
(* statement does not poison the statements that follow it.                *)
(***************************************************************************)

\* Entry of execute(sql): the cursor is opened inside the try block.
ExecBegin(sql, caller) ==
    /\ ex_pc = "idle"
    /\ ex_pc' = "set_timeout"
    /\ ex_sql' = sql
    /\ ex_caller' = caller
    /\ ex_produced' = 0
    /\ ex_outcome' = "none"
    /\ ex_pending' = "none"
    /\ ex_set' = FALSE
    /\ ex_result' = NoResult
    /\ ex_error' = NoError
    /\ conn_alive' = TRUE
    /\ statement_timeout' = statement_timeout

\* cursor.execute("SET statement_timeout = ..."): outside the inner try, so
\* a failure here goes straight to the except clauses.
ExecSetTimeout ==
    /\ ex_pc = "set_timeout"
    /\ \E ok \in BOOLEAN :
        IF ok
        THEN /\ statement_timeout' = DEFAULT_TIMEOUT
             /\ ex_set' = TRUE
             /\ ex_pc' = "run"
             /\ UNCHANGED <<ex_pending, ex_error>>
        ELSE /\ ex_pending' = "OperationalError"
             /\ ex_error' = ExecuteError("OperationalError")
             /\ ex_pc' = "raised"
             /\ UNCHANGED <<statement_timeout, ex_set>>
    /\ UNCHANGED <<ex_sql, ex_caller, ex_produced, ex_outcome, ex_result, conn_alive>>

\* cursor.execute(sql), cursor.description, fetchmany, serialization and the
\* construction of the QueryResult; any exception leaves through finally.
ExecRun ==
    /\ ex_pc = "run"
    /\ \E run \in RunOutcomes, produced \in 0..MaxProduced :
        \* contradictory owner predicates select nothing
        /\ Cardinality(ex_sql.owner_preds) > 1 => produced = 0
        /\ ex_outcome' = run
        /\ ex_produced' = IF run = "ok" THEN produced ELSE 0
        /\ ex_pending' =
              CASE run = "ok" -> "none"
                [] run = "timeout" -> "OperationalError:timeout"
                [] run = "operational_error" -> "OperationalError"
                [] run = "connection_lost" -> "OperationalError"
                [] OTHER -> "Exception"
        /\ ex_result' =
              IF run = "ok" THEN MakeQueryResult(ex_sql, fetchmany(produced))
              ELSE NoResult
        \* a lost connection takes the session and its settings with it
        /\ conn_alive' = (run # "connection_lost")
        /\ statement_timeout' =
              IF run = "connection_lost" THEN SERVER_DEFAULT ELSE statement_timeout
    /\ ex_pc' = "reset"
    /\ UNCHANGED <<ex_sql, ex_caller, ex_set, ex_error>>

\* The finally clause, then the return or the except clauses.
ExecReset ==
    /\ ex_pc = "reset"
    /\ IF conn_alive
       THEN /\ statement_timeout' = ResetStatementTimeout(statement_timeout, ex_pending)
            /\ ex_error' = ExecuteError(ex_pending)
            /\ ex_pc' = IF ex_pending = "none" THEN "returned" ELSE "raised"
            /\ UNCHANGED <<ex_pending, ex_result>>
       ELSE \* RESET itself raises OperationalError on the dead connection
            /\ ex_pending' = "OperationalError"
            /\ ex_error' = ExecuteError("OperationalError")
            /\ ex_result' = NoResult
            /\ ex_pc' = "raised"
            /\ UNCHANGED statement_timeout
    /\ UNCHANGED <<ex_sql, ex_caller, ex_produced, ex_outcome, ex_set, conn_alive>>

\* A direct caller of execute(sql) with an already validated statement.
ExecCall ==
    /\ \E sql \in { s \in Statements :
                      /\ s.table \in Tables /\ ~s.write_kw /\ ~s.sensitive_col
                      /\ s.owner_preds # {} } :
          ExecBegin(sql, "direct")
    /\ UNCHANGED <<an_vars, store_vars, ext_vars, rq_vars, cache_vars>>

\* The direct caller takes the result or the exception.
ExecFinish ==
    /\ ex_pc \in {"returned", "raised"}
    /\ ex_caller = "direct"
    /\ ex_pc' = "idle"
    /\ UNCHANGED <<ex_sql, ex_caller, ex_produced, ex_outcome, ex_pending,
                   ex_set, ex_result, ex_error, statement_timeout, conn_alive>>
    /\ UNCHANGED <<an_vars, store_vars, ext_vars, rq_vars, cache_vars>>

ExecInit == AnalyzeIdle /\ ExecIdle /\ ChatIdle /\ StoreIdle

ExecNext ==
    \/ ExecCall
    \/ ExecSetTimeout /\ UNCHANGED <<an_vars, store_vars, ext_vars, rq_vars, cache_vars>>
    \/ ExecRun /\ UNCHANGED <<an_vars, store_vars, ext_vars, rq_vars, cache_vars>>
    \/ ExecReset /\ UNCHANGED <<an_vars, store_vars, ext_vars, rq_vars, cache_vars>>
    \/ ExecFinish

SpecExec == ExecInit /\ [][ExecNext]_vars

(***************************************************************************)
(* QueryExecutor.execute_with_retry: the loop around execute.              *)
(***************************************************************************)
MaxRetries == 2

\* max_retries is an int; range(max_retries + 1) is empty below zero.
RetryArguments == -1..MaxRetries

RetryStatements ==
    { s \in Statements : s.table = "expenses_expense" /\ ~s.write_kw
                          /\ ~s.sensitive_col /\ s.owner_preds = {1} }

\* A slip that treats a timeout like any other execution error.
RetryDecisionRetriesTimeouts(err, attempt, max_retries) ==
    IF attempt < max_retries THEN "sleep" ELSE "next"

\* The except clauses of the loop body: a QueryTimeoutError is raised
\* again at once; another QueryExecutionError is kept in last_error, and
\* the loop sleeps before the next attempt unless this was the last one.
RetryDecision(err, attempt, max_retries) ==
    IF "QueryTimeoutError" \in Ancestors(err.class) THEN "raise"
    ELSE IF attempt < max_retries THEN "sleep"
    ELSE "next"

\* raise last_error after the loop; last_error is still None when the loop
\* body never ran, and raising None is a TypeError.
RaiseLast(last_error) ==
    IF last_error = NoError THEN MakeError("TypeError", "raise_none")
    ELSE last_error

\* Entry: last_error = None and the first iteration, if there is one.
RetryCall ==
    /\ rw_pc = "idle"
    /\ \E sql \in RetryStatements, max_retries \in RetryArguments :
        /\ rw_max_retries' = max_retries
        /\ IF 0 < max_retries + 1
           THEN /\ ExecBegin(sql, "retry")
                /\ rw_pc' = "executing"
                /\ rw_executions' = 1
                /\ rw_outcome' = rw_outcome
           ELSE /\ rw_pc' = "raised"
                /\ rw_executions' = 0
                /\ rw_outcome' = [rw_outcome EXCEPT !.kind = "raised",
                                     !.error = RaiseLast(NoError)]
                /\ UNCHANGED ex_vars
    /\ rw_attempt' = 0
    /\ rw_last_error' = NoError
    /\ rw_errors' = <<>>
    /\ UNCHANGED <<an_vars, rq_vars, cache_vars, store_vars, sv_vars, cw_vars, qi_vars>>

\* execute has returned or raised: the return statement or the handlers.
RetryHandle ==
    /\ rw_pc = "executing"
    /\ ex_caller = "retry"
    /\ ex_pc \in {"returned", "raised"}
    /\ ex_pc' = "idle"
    /\ IF ex_pc = "returned"
       THEN /\ rw_pc' = "returned"
            /\ rw_outcome' = [rw_outcome EXCEPT !.kind = "returned",
                                 !.result = ex_result]
            /\ UNCHANGED <<rw_attempt, rw_last_error, rw_errors>>
       ELSE LET d == RetryDecision(ex_error, rw_attempt, rw_max_retries)
            IN  /\ rw_errors' = Append(rw_errors, ex_error)
                /\ rw_last_error' = IF d = "raise" THEN rw_last_error ELSE ex_error
                /\ rw_pc' = CASE d = "raise" -> "raised"
                              [] d = "sleep" -> "sleeping"
                              [] OTHER -> "raised"
                /\ rw_outcome' =
                      CASE d = "raise" ->
                             [rw_outcome EXCEPT !.kind = "raised", !.error = ex_error]
                        [] d = "sleep" -> rw_outcome
                        [] OTHER ->
                             [rw_outcome EXCEPT !.kind = "raised",
                                                !.error = RaiseLast(ex_error)]
                /\ UNCHANGED rw_attempt
    /\ UNCHANGED <<rw_max_retries, rw_executions>>
    /\ UNCHANGED <<ex_sql, ex_caller, ex_produced, ex_outcome, ex_pending,
                   ex_set, ex_result, ex_error, statement_timeout, conn_alive>>
    /\ UNCHANGED <<an_vars, rq_vars, cache_vars, store_vars, sv_vars, cw_vars, qi_vars>>

\* time.sleep(retry_delay) is over: the next iteration calls execute again.
RetryAgain ==
    /\ rw_pc = "sleeping"
    /\ ExecBegin(ex_sql, "retry")
    /\ rw_pc' = "executing"
    /\ rw_attempt' = rw_attempt + 1
    /\ rw_executions' = rw_executions + 1
    /\ UNCHANGED <<rw_max_retries, rw_last_error, rw_errors, rw_outcome>>
    /\ UNCHANGED <<an_vars, rq_vars, cache_vars, store_vars, sv_vars, cw_vars, qi_vars>>

\* The caller takes the result or the exception.
RetryFinish ==
    /\ rw_pc \in {"returned", "raised"}
    /\ rw_pc' = "idle"
    /\ rw_max_retries' = 0
    /\ rw_attempt' = 0
    /\ rw_last_error' = NoError
    /\ rw_executions' = 0
    /\ rw_errors' = <<>>
    /\ rw_outcome' = [kind |-> "none", error |-> NoError, result |-> NoResult]
    /\ UNCHANGED <<an_vars, ex_vars, rq_vars, cache_vars, store_vars, sv_vars, cw_vars, qi_vars>>

RetryInit == AnalyzeIdle /\ ExecIdle /\ ChatIdle /\ StoreIdle

RetryNext ==
    \/ RetryCall
    \/ ExecSetTimeout /\ UNCHANGED <<an_vars, store_vars, ext_vars, rq_vars, cache_vars>>
    \/ ExecRun /\ UNCHANGED <<an_vars, store_vars, ext_vars, rq_vars, cache_vars>>
    \/ ExecReset /\ UNCHANGED <<an_vars, store_vars, ext_vars, rq_vars, cache_vars>>
    \/ RetryHandle
    \/ RetryAgain
    \/ RetryFinish

SpecRetry == RetryInit /\ [][RetryNext]_vars

(***************************************************************************)
(* ChatService.query, one action per step of the pipeline.                 *)
(***************************************************************************)

\* Entry of query: the intent classifier (not part of the sources) decides
\* whether the SQL path is tried first.
Query ==
    /\ pc = "idle"
    /\ n_requests < MaxRequests
    /\ \E question \in ChatQuestions, owner \in Owners,
          use_cache \in BOOLEAN, history \in BOOLEAN, use_sql \in BOOLEAN :
        /\ req' = [question |-> question, owner |-> owner, use_cache |-> use_cache,
                   history |-> history, use_sql |-> use_sql]
        /\ pc' = IF use_sql THEN "sql_generate" ELSE "rag_embed"
    /\ n_requests' = n_requests + 1
    /\ UNCHANGED <<gen_sql, sql_error, results, routing, provider_calls,
                   remote_sent, cache_fault, outcome>>
    /\ UNCHANGED <<an_vars, store_vars, ext_vars, ex_vars, cache_vars>>

\* The try/except of query around _handle_sql_query: a caught error sends
\* the request to the RAG path, any other error reaches the caller.
SqlRaise(err) ==
    /\ sql_error' = err.class
    /\ gen_sql' = NoStatement
    /\ IF QueryCatches(err)
       THEN pc' = "rag_embed" /\ outcome' = outcome
       ELSE pc' = "done" /\ outcome' = ErrorOutcome(err)

\* Step 1 of _handle_sql_query: SQLGenerator.generate.  Every exception
\* inside generate leaves it as SQLGenerationError.
SqlGenerate ==
    /\ pc = "sql_generate"
    /\ \E g \in ProviderOutcomes, extracted \in {"sql", "no_sql", "invalid_sql"},
          sql \in Statements :
        /\ provider_calls' =
              IF g = "unavailable" THEN provider_calls
              ELSE provider_calls \cup {[provider |-> "groq", purpose |-> "sql_generate"]}
        /\ IF g # "ok"
           THEN SqlRaise(MakeError("SQLGenerationError", "llm_error"))
           ELSE IF extracted = "no_sql"
           THEN SqlRaise(MakeError("SQLGenerationError", "no_sql_generated"))
           ELSE IF extracted = "invalid_sql"
           THEN SqlRaise(MakeError("SQLGenerationError", "invalid_sql"))
           ELSE /\ gen_sql' = sql
                /\ pc' = "sql_validate"
                /\ UNCHANGED <<sql_error, outcome>>
    /\ UNCHANGED <<req, n_requests, results, routing, remote_sent, cache_fault>>
    /\ UNCHANGED <<an_vars, store_vars, ext_vars, ex_vars, cache_vars>>

\* Step 2: SQLValidator.validate with inject_owner_filter and inject_limit,
\* then the entry of step 3, QueryExecutor.execute.
SqlValidate ==
    /\ pc = "sql_validate"
    /\ LET verr == ValidationErrorOf(gen_sql)
       IN  IF verr # "none"
           THEN /\ SqlRaise(MakeError("SQLValidationError", verr))
                /\ UNCHANGED ex_vars
           ELSE /\ ExecBegin(ExecutedStatement(gen_sql, Sanitize(gen_sql, req.owner)), "chat")
                /\ pc' = "sql_execute"
                /\ UNCHANGED <<gen_sql, sql_error, outcome>>
    /\ UNCHANGED <<req, n_requests, results, routing, provider_calls,
                   remote_sent, cache_fault>>
    /\ UNCHANGED <<an_vars, store_vars, ext_vars, cache_vars>>

\* Step 3 ends: execute returned a QueryResult or raised.
SqlExecuteDone ==
    /\ pc = "sql_execute"
    /\ ex_caller = "chat"
    /\ ex_pc \in {"returned", "raised"}
    /\ IF ex_pc = "raised"
       THEN SqlRaise(ex_error)
       ELSE pc' = "sql_format" /\ UNCHANGED <<gen_sql, sql_error, outcome>>
    \* the frame of execute is gone; the caller holds only the QueryResult
    /\ ex_pc' = "idle"
    /\ ex_sql' = NoStatement
    /\ ex_caller' = "none"
    /\ ex_produced' = 0
    /\ ex_outcome' = "none"
    /\ ex_pending' = "none"
    /\ ex_set' = FALSE
    /\ ex_error' = NoError
    /\ UNCHANGED <<ex_result, statement_timeout, conn_alive>>
    /\ UNCHANGED <<req, n_requests, results, routing, provider_calls,
                   remote_sent, cache_fault>>
    /\ UNCHANGED <<an_vars, store_vars, ext_vars, cache_vars>>

\* Steps 4 and 5: QueryResultFormatter.format and the response.  With at
\* least one row, _generate_summary sends the rows to GroqProvider; a
\* failure of that call falls back to the template summary.
SqlFormat ==
    /\ pc = "sql_format"
    /\ \E g \in ProviderOutcomes :
        /\ g # "ok" => ex_result.row_count > 0
        /\ IF ex_result.row_count > 0 /\ g # "unavailable"
           THEN /\ provider_calls' = provider_calls \cup
                      {[provider |-> "groq", purpose |-> "sql_summary"]}
                /\ remote_sent' = remote_sent \cup
                      {[purpose |-> "sql_summary",
                        tipo |-> TableTipo(ex_result.sql.table),
                        sensibilidade |-> "unclassified"]}
           ELSE UNCHANGED <<provider_calls, remote_sent>>
    /\ outcome' = [NoOutcome EXCEPT !.kind = "response", !.execution_mode = "sql",
                                    !.routing_decision = "sql", !.provider = "groq"]
    /\ pc' = "done"
    /\ UNCHANGED <<req, n_requests, gen_sql, sql_error, results, routing, cache_fault>>
    /\ UNCHANGED <<an_vars, store_vars, ext_vars, ex_vars, cache_vars>>

\* What EmbeddingService.generate does with the question: it answers, the
\* server cannot be reached (OllamaConnectionError), or the generation
\* fails (EmbeddingGenerationError).
EmbeddingOutcomes == {"ok", "connection", "generation_failed"}

\* Entry of _handle_rag_query: the query embedding.  A failure of the
\* embedding service is not handled here.
RagEmbed ==
    /\ pc = "rag_embed"
    /\ \E e \in EmbeddingOutcomes :
        IF e = "ok"
        THEN /\ pc' = IF req.use_cache /\ ~req.history
                      THEN "rag_check_cache" ELSE "rag_retrieve"
             /\ outcome' = outcome
        ELSE /\ pc' = "done"
             /\ outcome' = ErrorOutcome(MakeError("EmbeddingError", e))
    /\ UNCHANGED <<req, n_requests, gen_sql, sql_error, results, routing,
                   provider_calls, remote_sent, cache_fault>>
    /\ UNCHANGED <<an_vars, store_vars, ext_vars, ex_vars, cache_vars>>

\* Step 1: _check_cache, that is CacheService.get (exact tier, then
\* semantic tier); either round trip to the store may fail.
RagCheckCache ==
    /\ pc = "rag_check_cache"
    /\ \E fault \in {"none", "exact_get", "semantic_get"} :
        LET key == QueryKey(req.question, req.owner, "")
            exact == IF fault = "exact_get" THEN NoPayload
                     ELSE ExactLookup(exact_cache, key)
            semantic == IF fault = "none" /\ exact = NoPayload
                        THEN SemanticGet(semantic_index[req.owner], Embed(req.question), "")[1]
                        ELSE NoPayload
            raised == fault = "exact_get" \/ (fault = "semantic_get" /\ exact = NoPayload)
            cached == IF raised THEN NoPayload
                      ELSE IF exact # NoPayload THEN exact ELSE semantic
            err == CheckCacheError(raised)
        IN  /\ fault = "semantic_get" => exact = NoPayload
            /\ cache_fault' = (cache_fault \/ raised)
            /\ IF err # NoError
               THEN pc' = "done" /\ outcome' = ErrorOutcome(err)
               ELSE IF cached # NoPayload
               THEN /\ pc' = "done"
                    /\ outcome' = [NoOutcome EXCEPT
                          !.kind = "response", !.execution_mode = "rag",
                          !.provider = "cache", !.cached = TRUE,
                          !.max_sensitivity = cached.max_sensitivity]
               ELSE pc' = "rag_retrieve" /\ outcome' = outcome
    /\ UNCHANGED <<req, n_requests, gen_sql, sql_error, results, routing,
                   provider_calls, remote_sent>>
    /\ UNCHANGED <<an_vars, store_vars, ext_vars, ex_vars, cache_vars>>

\* Steps 2 and 3: retrieval, and the empty response when nothing is found.
RagRetrieve ==
    /\ pc = "rag_retrieve"
    /\ \E rs \in ChatResultLists :
        /\ results' = rs
        /\ IF rs = <<>>
           THEN /\ pc' = "done"
                /\ outcome' = [NoOutcome EXCEPT !.kind = "response",
                                  !.execution_mode = "rag"]
           ELSE pc' = "rag_generate" /\ outcome' = outcome
    /\ UNCHANGED <<req, n_requests, gen_sql, sql_error, routing, provider_calls,
                   remote_sent, cache_fault>>
    /\ UNCHANGED <<an_vars, store_vars, ext_vars, ex_vars, cache_vars>>

\* The content of the retrieved results, as sent inside the context text.
ContextItems(rs) ==
    { [purpose |-> "rag", tipo |-> rs[i].tipo, sensibilidade |-> rs[i].sensibilidade] :
        i \in 1..Len(rs) }

\* Steps 4 to 6: the context, LLMRouter.generate and the response.  The
\* call to the router has no handler around it.
RagGenerate ==
    /\ pc = "rag_generate"
    /\ \E p \in ProviderOutcomes :
        LET ctx == RouterChoice(req.question, results)
            retried == IF p = "ok" THEN {} ELSE FallbackProviders(ctx.chosen)
            called == RouterCalls(ctx.chosen, p) \cup retried
        IN  /\ routing' = [chosen |-> ctx.chosen, failed |-> (p # "ok"),
                           requires_local |-> ctx.requires_local]
            /\ provider_calls' = provider_calls \cup
                  { [provider |-> c, purpose |-> "rag"] : c \in called }
            /\ remote_sent' = IF "groq" \in called
                              THEN remote_sent \cup ContextItems(results)
                              ELSE remote_sent
            /\ IF p = "ok" \/ retried # {}
               THEN /\ outcome' = [NoOutcome EXCEPT
                          !.kind = "response", !.execution_mode = "rag",
                          !.routing_decision = ctx.decision,
                          !.provider = IF p = "ok" THEN ctx.chosen
                                       ELSE CHOOSE c \in retried : TRUE,
                          !.max_sensitivity = ctx.max_sensitivity]
                    /\ pc' = IF ShouldCache(req.use_cache, ctx.max_sensitivity,
                                            req.history)
                             THEN "rag_cache" ELSE "done"
               ELSE /\ outcome' = ErrorOutcome(RouterError(ctx.chosen, p))
                    /\ pc' = "done"
    \* the results are not read again once the response is built
    /\ results' = <<>>
    /\ UNCHANGED <<req, n_requests, gen_sql, sql_error, cache_fault>>
    /\ UNCHANGED <<an_vars, store_vars, ext_vars, ex_vars, cache_vars>>

\* Step 7: _cache_response, that is CacheService.set: the exact key is
\* written, then the semantic list is read, changed and written back.  Any
\* of the three round trips may fail.
RagCacheResponse ==
    /\ pc = "rag_cache"
    /\ \E fault \in {"none", "exact_set", "semantic_get", "semantic_set"} :
        LET key == QueryKey(req.question, req.owner, "")
            payload == [max_sensitivity |-> outcome.max_sensitivity,
                        history |-> req.history]
            err == CacheResponseError(fault # "none")
        IN  /\ exact_cache' = IF fault = "exact_set" THEN exact_cache
                              ELSE ExactStore(exact_cache, key, payload)
            /\ semantic_index' =
                  IF fault = "none"
                  THEN [semantic_index EXCEPT ![req.owner] =
                           SemanticSet(@, req.question, Embed(req.question), payload, "")]
                  ELSE semantic_index
            /\ cache_fault' = (cache_fault \/ fault # "none")
            /\ outcome' = IF err = NoError THEN outcome ELSE ErrorOutcome(err)
    /\ pc' = "done"
    /\ UNCHANGED <<req, n_requests, gen_sql, sql_error, results, routing,
                   provider_calls, remote_sent>>
    /\ UNCHANGED <<an_vars, store_vars, ext_vars, ex_vars>>

\* query returns or raises: the caller takes the outcome.
Respond ==
    /\ pc = "done"
    /\ pc' = "idle"
    /\ req' = NoRequest
    /\ gen_sql' = NoStatement
    /\ sql_error' = "none"
    /\ results' = <<>>
    /\ routing' = NoRouting
    /\ provider_calls' = {}
    /\ remote_sent' = {}
    /\ cache_fault' = FALSE
    /\ outcome' = NoOutcome
    /\ ex_result' = NoResult
    /\ conn_alive' = TRUE
    /\ UNCHANGED n_requests
    /\ UNCHANGED <<ex_pc, ex_sql, ex_caller, ex_produced, ex_outcome, ex_pending,
                   ex_set, ex_error, statement_timeout>>
    /\ UNCHANGED <<an_vars, store_vars, ext_vars, cache_vars>>

Init == AnalyzeIdle /\ ExecIdle /\ ChatIdle /\ StoreIdle

Next ==
    \/ Query
    \/ SqlGenerate
    \/ SqlValidate
    \/ ExecSetTimeout /\ UNCHANGED <<an_vars, store_vars, ext_vars, rq_vars, cache_vars>>
    \/ ExecRun /\ UNCHANGED <<an_vars, store_vars, ext_vars, rq_vars, cache_vars>>
    \/ ExecReset /\ UNCHANGED <<an_vars, store_vars, ext_vars, rq_vars, cache_vars>>
    \/ SqlExecuteDone
    \/ SqlFormat
    \/ RagEmbed
    \/ RagCheckCache
    \/ RagRetrieve
    \/ RagGenerate
    \/ RagCacheResponse
    \/ Respond

Spec == Init /\ [][Next]_vars

(***************************************************************************)
(* Specification of the semantic cache: SemanticCache.set and get, and     *)
(* CacheService.invalidate_content, called one after the other in any      *)
(* order for any owner.                                                    *)
(***************************************************************************)
\* A cached response; stamp tells the responses apart.
Payload(stamp) == [max_sensitivity |-> BAIXA, history |-> FALSE, stamp |-> stamp]

FilterHashes == {"", "f1"}

\* CacheKeyGenerator.content_invalidation_key
ContentInvalidationKey(content_type, content_id, owner_id) ==
    [content_type |-> content_type, content_id |-> content_id, owner |-> owner_id]

\* SemanticCache.set(query, query_embedding, response, owner_id, filters_hash)
SemSet ==
    /\ sc_last = NoLookup
    /\ sc_sets < MaxSets
    /\ \E owner_id \in Owners, query \in CacheQuestions, filters_hash \in FilterHashes :
        /\ semantic_index' = [semantic_index EXCEPT ![owner_id] =
              SemanticSet(@, query, Embed(query), Payload(sc_sets + 1), filters_hash)]
        /\ sc_log' = Append(sc_log, [owner |-> owner_id, query |-> query,
                                     filters_hash |-> filters_hash,
                                     stamp |-> sc_sets + 1])
        /\ sc_invalidated' = { r \in sc_invalidated : r.owner # owner_id }
    /\ sc_sets' = sc_sets + 1
    /\ UNCHANGED <<sc_last, exact_cache>>
    /\ UNCHANGED <<ext_vars, an_vars, ex_vars, rq_vars, ix_vars, rt_last>>

\* SemanticCache.get(query_embedding, owner_id, filters_hash)
SemGet ==
    /\ sc_last = NoLookup
    /\ \E owner_id \in Owners, query \in CacheQuestions, filters_hash \in FilterHashes :
        LET found == SemanticGet(semantic_index[owner_id], Embed(query), filters_hash)
        IN  sc_last' = [owner |-> owner_id, embedding |-> Embed(query),
                        filters_hash |-> filters_hash,
                        response |-> found[1], score |-> found[2]]
    /\ UNCHANGED <<sc_log, sc_invalidated, sc_sets>>
    /\ UNCHANGED <<ext_vars, an_vars, ex_vars, rq_vars, cache_vars, ix_vars, rt_last>>

\* CacheService.invalidate_content(content_type, content_id, owner_id): the
\* marker is written, then the owner's list is deleted.  A failure of the
\* store is not handled: the call raises and nothing is deleted.
InvalidateContent ==
    /\ sc_last = NoLookup
    /\ \E owner_id \in Owners, raises \in BOOLEAN :
        IF raises
        THEN UNCHANGED <<exact_cache, semantic_index, sc_log, sc_invalidated>>
        ELSE /\ exact_cache' = ExactStore(exact_cache,
                                  ContentInvalidationKey("expense", 1, owner_id), "1")
             /\ semantic_index' = SemanticInvalidate(semantic_index, owner_id)
             /\ sc_invalidated' = { r \in sc_invalidated : r.owner # owner_id } \cup
                                  {[owner |-> owner_id,
                                    cleared |-> Len(semantic_index[owner_id])]}
             /\ sc_log' = SelectSeq(sc_log, LAMBDA e : e.owner # owner_id)
    /\ UNCHANGED <<sc_last, sc_sets>>
    /\ UNCHANGED <<ext_vars, an_vars, ex_vars, rq_vars, ix_vars, rt_last>>

\* The caller of get takes the result.
SemGetReturn ==
    /\ sc_last # NoLookup
    /\ sc_last' = NoLookup
    /\ UNCHANGED <<sc_log, sc_invalidated, sc_sets>>
    /\ UNCHANGED <<ext_vars, an_vars, ex_vars, rq_vars, cache_vars, ix_vars, rt_last>>

CacheInit == AnalyzeIdle /\ ExecIdle /\ ChatIdle /\ StoreIdle

CacheNext ==
    \/ SemSet
    \/ SemGet
    \/ SemGetReturn
    \/ InvalidateContent

SpecCache == CacheInit /\ [][CacheNext]_vars

(***************************************************************************)
(* Specification of CacheService: set, get and invalidate_content over     *)
(* both tiers, called one after the other in any order.                    *)
(***************************************************************************)
ServiceQuestions == {QComplex, QComplexUpper, QTrend}

\* A slip that asks the semantic tier first and forgets the exact tier.
CacheServiceGetSemanticOnly(exact, index, query, owner_id, filters_hash) ==
    LET semantic == SemanticGet(index[owner_id], Embed(query), filters_hash)[1]
    IN  IF semantic # NoPayload THEN <<semantic, "semantic">>
        ELSE <<NoPayload, "none">>

\* CacheService.get: the exact tier first, then the semantic tier.
CacheServiceGet(exact, index, query, owner_id, filters_hash) ==
    LET result == ExactLookup(exact, QueryKey(query, owner_id, filters_hash))
        semantic == SemanticGet(index[owner_id], Embed(query), filters_hash)[1]
    IN  IF result # NoPayload THEN <<result, "exact">>
        ELSE IF semantic # NoPayload THEN <<semantic, "semantic">>
        ELSE <<NoPayload, "none">>

\* CacheService.set(query, query_embedding, response, owner_id, filters)
ServiceSet ==
    /\ sv_last = NoServiceGet
    /\ Len(sv_history) < MaxSets
    /\ \E owner_id \in Owners, query \in ServiceQuestions, filters_hash \in FilterHashes :
        LET stamp == Len(sv_history) + 1
        IN  /\ exact_cache' = ExactStore(exact_cache,
                                  QueryKey(query, owner_id, filters_hash), Payload(stamp))
            /\ semantic_index' = [semantic_index EXCEPT ![owner_id] =
                  SemanticSet(@, query, Embed(query), Payload(stamp), filters_hash)]
            /\ sv_history' = Append(sv_history,
                  [op |-> "set", owner |-> owner_id, query |-> query,
                   filters_hash |-> filters_hash])
    /\ UNCHANGED sv_last
    /\ UNCHANGED <<an_vars, ex_vars, rq_vars, store_vars, retry_vars, cw_vars, qi_vars>>

\* CacheService.get(query, query_embedding, owner_id, filters)
ServiceGet ==
    /\ sv_last = NoServiceGet
    /\ \E owner_id \in Owners, query \in ServiceQuestions, filters_hash \in FilterHashes :
        LET found == CacheServiceGet(exact_cache, semantic_index, query, owner_id,
                                     filters_hash)
        IN  sv_last' = [owner |-> owner_id, query |-> query,
                        filters_hash |-> filters_hash,
                        response |-> found[1], cache_type |-> found[2]]
    /\ UNCHANGED sv_history
    /\ UNCHANGED <<an_vars, ex_vars, rq_vars, cache_vars, store_vars, retry_vars, cw_vars, qi_vars>>

\* CacheService.invalidate_content(content_type, content_id, owner_id)
ServiceInvalidateContent ==
    /\ sv_last = NoServiceGet
    /\ Len(sv_history) < MaxSets
    /\ \E owner_id \in Owners :
        /\ exact_cache' = ExactStore(exact_cache,
                             ContentInvalidationKey("expense", 1, owner_id), "1")
        /\ semantic_index' = SemanticInvalidate(semantic_index, owner_id)
        /\ sv_history' = Append(sv_history,
              [op |-> "invalidate_content", owner |-> owner_id,
               query |-> [kws |-> {}, words |-> 0], filters_hash |-> ""])
    /\ UNCHANGED sv_last
    /\ UNCHANGED <<an_vars, ex_vars, rq_vars, store_vars, retry_vars, cw_vars, qi_vars>>

\* The caller of get takes the result.
ServiceReturn ==
    /\ sv_last # NoServiceGet
    /\ sv_last' = NoServiceGet
    /\ UNCHANGED sv_history
    /\ UNCHANGED <<an_vars, ex_vars, rq_vars, cache_vars, store_vars, retry_vars, cw_vars, qi_vars>>

ServiceInit == AnalyzeIdle /\ ExecIdle /\ ChatIdle /\ StoreIdle

ServiceNext ==
    \/ ServiceSet
    \/ ServiceGet
    \/ ServiceInvalidateContent
    \/ ServiceReturn

SpecService == ServiceInit /\ [][ServiceNext]_vars

(***************************************************************************)
(* Specification of concurrent requests on one owner's semantic list:      *)
(* SemanticCache.set is a read of the list (_get_index) and a later write  *)
(* of the whole list (_save_index), with no lock between them; get and     *)
(* invalidate are one round trip to the store each.                        *)
(***************************************************************************)
SharedOwner == 1

\* The entry a set call stores.
EntryOf(args) ==
    [query |-> args.query, embedding |-> Embed(args.query),
     response |-> Payload(args.stamp), filters_hash |-> args.filters_hash]

\* set, up to index = self._get_index(owner_id)
WriterLoad(w) ==
    /\ cw_pc[w] = "idle"
    /\ cw_sets < MaxSets
    /\ \E query \in ServiceQuestions, filters_hash \in FilterHashes :
        cw_args' = [cw_args EXCEPT ![w] =
                       [query |-> query, filters_hash |-> filters_hash,
                        stamp |-> cw_sets + 1]]
    /\ cw_local' = [cw_local EXCEPT ![w] = semantic_index[SharedOwner]]
    /\ cw_pc' = [cw_pc EXCEPT ![w] = "loaded"]
    /\ cw_sets' = cw_sets + 1
    /\ UNCHANGED <<cw_written, cw_before, cw_invalidated, cw_last>>
    /\ UNCHANGED <<an_vars, ex_vars, rq_vars, cache_vars, store_vars, retry_vars, sv_vars, qi_vars>>

\* set, from the removal of the same question to self._save_index
WriterSave(w) ==
    /\ cw_pc[w] = "loaded"
    /\ semantic_index' = [semantic_index EXCEPT ![SharedOwner] =
          SemanticSet(cw_local[w], cw_args[w].query, Embed(cw_args[w].query),
                      Payload(cw_args[w].stamp), cw_args[w].filters_hash)]
    /\ cw_written' = cw_written \cup {EntryOf(cw_args[w])}
    /\ cw_pc' = [cw_pc EXCEPT ![w] = "idle"]
    /\ cw_local' = [cw_local EXCEPT ![w] = <<>>]
    /\ cw_args' = [cw_args EXCEPT ![w] = NoSetCall]
    /\ UNCHANGED <<cw_before, cw_invalidated, cw_sets, cw_last, exact_cache>>
    /\ UNCHANGED <<an_vars, ex_vars, rq_vars, store_vars, retry_vars, sv_vars, qi_vars>>

\* SemanticCache.invalidate(owner_id): self.cache.delete(key)
ConcurrentInvalidate ==
    /\ cw_last = NoLookup
    /\ semantic_index' = SemanticInvalidate(semantic_index, SharedOwner)
    /\ cw_before' = cw_written
    /\ cw_invalidated' = TRUE
    /\ UNCHANGED <<cw_pc, cw_args, cw_local, cw_written, cw_sets, cw_last, exact_cache>>
    /\ UNCHANGED <<an_vars, ex_vars, rq_vars, store_vars, retry_vars, sv_vars, qi_vars>>

\* SemanticCache.get(query_embedding, owner_id, filters_hash)
ConcurrentGet ==
    /\ cw_last = NoLookup
    /\ \E query \in ServiceQuestions, filters_hash \in FilterHashes :
        LET found == SemanticGet(semantic_index[SharedOwner], Embed(query), filters_hash)
        IN  cw_last' = [owner |-> SharedOwner, embedding |-> Embed(query),
                        filters_hash |-> filters_hash,
                        response |-> found[1], score |-> found[2]]
    /\ UNCHANGED <<cw_pc, cw_args, cw_local, cw_written, cw_before, cw_invalidated, cw_sets>>
    /\ UNCHANGED <<an_vars, ex_vars, rq_vars, cache_vars, store_vars, retry_vars, sv_vars, qi_vars>>

\* The caller of get takes the result.
ConcurrentGetReturn ==
    /\ cw_last # NoLookup
    /\ cw_last' = NoLookup
    /\ UNCHANGED <<cw_pc, cw_args, cw_local, cw_written, cw_before, cw_invalidated, cw_sets>>
    /\ UNCHANGED <<an_vars, ex_vars, rq_vars, cache_vars, store_vars, retry_vars, sv_vars, qi_vars>>

ConcurrentInit == AnalyzeIdle /\ ExecIdle /\ ChatIdle /\ StoreIdle

ConcurrentNext ==
    \/ \E w \in Writers : WriterLoad(w)
    \/ \E w \in Writers : WriterSave(w)
    \/ ConcurrentInvalidate
    \/ ConcurrentGet
    \/ ConcurrentGetReturn

SpecConcurrent == ConcurrentInit /\ [][ConcurrentNext]_vars

(***************************************************************************)
(* Specification of the indexing path: the post_save and post_delete       *)
(* handlers of signals.py, EmbeddingIndexer.index_single, and the semantic *)
(* cache of the owners whose content is indexed.                           *)
(***************************************************************************)
\* The content types of MODEL_CONFIG (one of them is enough here), and a
\* content type that is not configured.
KnownContentTypes == {"expense"}
ContentTypes == KnownContentTypes \cup {"unknown"}

\* ContentEmbedding.objects.filter(content_type, content_id, owner).first()
FindRecord(store, content_type, content_id, owner_id) ==
    LET found == { r \in store : /\ r.content_type = content_type
                                 /\ r.content_id = content_id
                                 /\ r.owner = owner_id }
    IN  IF found = {} THEN NoRecord ELSE CHOOSE r \in found : TRUE

\* A slip that returns the existing record even when force is set.
AlreadyIndexedIgnoringForce(existing, force) ==
    existing # NoRecord /\ existing.is_indexed

\* existing and existing.is_indexed and not force
AlreadyIndexed(existing, force) ==
    existing # NoRecord /\ existing.is_indexed /\ ~force

\* index_single: the record store afterwards, the record returned (NoRecord
\* for None) and whether the embedding service was called.  embed_ok tells
\* whether the embedding service answers; now stamps the embedding made.
index_single(store, ents, content_type, content_id, owner_id, force, embed_ok, now) ==
    LET existing == FindRecord(store, content_type, content_id, owner_id)
        record == [content_type |-> content_type, content_id |-> content_id,
                   owner |-> owner_id, is_indexed |-> TRUE,
                   version |-> ents[content_id].version, generation |-> now]
    IN  IF content_type \notin KnownContentTypes
        THEN [store |-> store, returned |-> NoRecord, generated |-> FALSE]
        ELSE IF ents[content_id].status # "live"
        THEN [store |-> store, returned |-> NoRecord, generated |-> FALSE]
        ELSE IF AlreadyIndexed(existing, force)
        THEN [store |-> store, returned |-> existing, generated |-> FALSE]
        ELSE IF ~embed_ok
        THEN [store |-> store, returned |-> NoRecord, generated |-> TRUE]
        ELSE [store |-> (store \ {existing}) \cup {record},
              returned |-> record, generated |-> TRUE]

\* The changes an operation made to the records, counted per owner.
CountChanges(changes, before, after) ==
    [o \in Owners |->
        IF { r \in before : r.owner = o } # { r \in after : r.owner = o }
        THEN changes[o] + 1 ELSE changes[o]]

\* What a call of index_single leaves in ix_last.
IndexCall(content_type, content_id, owner_id, force, embed_ok, res) ==
    [content_type |-> content_type, content_id |-> content_id, owner |-> owner_id,
     force |-> force,
     source_exists |-> (content_type \in KnownContentTypes
                        /\ entities[content_id].status = "live"),
     before |-> FindRecord(content_embeddings, content_type, content_id, owner_id),
     generated |-> res.generated, embed_ok |-> embed_ok,
     returned |-> res.returned,
     after |-> FindRecord(res.store, content_type, content_id, owner_id)]

IndexCallsIdle == ix_last = NoIndexCall /\ sc_last = NoLookup

\* A source entity is created or updated: save(), then the post_save
\* handler, then index_content_async, then index_single(force=True).  The
\* handler does nothing for an entity without owner, and index_content_async
\* swallows every exception.
SaveEntity ==
    /\ IndexCallsIdle
    /\ ix_ops < MaxIndexOps
    /\ \E content_id \in Items, owner_id \in Owners \cup {0}, embed_ok \in BOOLEAN :
        /\ entities[content_id].status # "deleted"
        /\ entities[content_id].status = "live" => owner_id = entities[content_id].owner
        /\ LET ents == [entities EXCEPT ![content_id] =
                          [status |-> "live", version |-> @.version + 1,
                           owner |-> owner_id]]
               res == index_single(content_embeddings, ents, "expense", content_id,
                                   owner_id, TRUE, embed_ok, ix_ops + 1)
           IN  /\ entities' = ents
               /\ IF owner_id = 0
                  THEN UNCHANGED <<content_embeddings, ix_last, ix_changes>>
                  ELSE /\ content_embeddings' = res.store
                       /\ ix_changes' = CountChanges(ix_changes, content_embeddings,
                                                     res.store)
                       /\ ix_last' = [IndexCall("expense", content_id, owner_id,
                                                TRUE, embed_ok, res)
                                        EXCEPT !.source_exists = TRUE]
    /\ ix_ops' = ix_ops + 1
    /\ UNCHANGED <<ext_vars, an_vars, ex_vars, rq_vars, cache_vars, sc_vars, rt_last>>

\* A source entity is deleted: delete(), then the post_delete handler, then
\* delete_embedding, which swallows every exception.
DeleteEntity ==
    /\ IndexCallsIdle
    /\ ix_ops < MaxIndexOps
    /\ \E content_id \in Items, db_ok \in BOOLEAN :
        /\ entities[content_id].status = "live"
        /\ entities' = [entities EXCEPT ![content_id].status = "deleted"]
        /\ LET owner_id == entities[content_id].owner
               gone == { r \in content_embeddings :
                           /\ r.content_type = "expense"
                           /\ r.content_id = content_id
                           /\ r.owner = owner_id }
               store == IF owner_id # 0 /\ db_ok THEN content_embeddings \ gone
                        ELSE content_embeddings
           IN  /\ content_embeddings' = store
               /\ ix_changes' = CountChanges(ix_changes, content_embeddings, store)
    /\ ix_ops' = ix_ops + 1
    /\ UNCHANGED ix_last
    /\ UNCHANGED <<ext_vars, an_vars, ex_vars, rq_vars, cache_vars, sc_vars, rt_last>>

\* EmbeddingIndexer.index_single called directly (index_module calls it with
\* force=False).
IndexSingle ==
    /\ IndexCallsIdle
    /\ ix_ops < MaxIndexOps
    /\ \E content_type \in ContentTypes, content_id \in Items, owner_id \in Owners,
          force \in BOOLEAN, embed_ok \in BOOLEAN :
        LET res == index_single(content_embeddings, entities, content_type,
                                content_id, owner_id, force, embed_ok, ix_ops + 1)
        IN  /\ content_embeddings' = res.store
            /\ ix_changes' = CountChanges(ix_changes, content_embeddings, res.store)
            /\ ix_last' = IndexCall(content_type, content_id, owner_id, force,
                                    embed_ok, res)
    /\ ix_ops' = ix_ops + 1
    /\ UNCHANGED entities
    /\ UNCHANGED <<ext_vars, an_vars, ex_vars, rq_vars, cache_vars, sc_vars, rt_last>>

\* A response computed from the owner's indexed content is put in the
\* semantic cache; its stamp tells the state of the content it was computed
\* from.
IndexedCacheSet ==
    /\ IndexCallsIdle
    /\ \E owner_id \in Owners :
        semantic_index' = [semantic_index EXCEPT ![owner_id] =
            SemanticSet(@, QComplex, Embed(QComplex), Payload(ix_changes[owner_id]), "")]
    /\ UNCHANGED exact_cache
    /\ UNCHANGED <<ext_vars, an_vars, ex_vars, rq_vars, sc_vars, ix_vars, rt_last>>

\* A later question of the owner is looked up in the semantic cache.
IndexedCacheGet ==
    /\ IndexCallsIdle
    /\ \E owner_id \in Owners, query \in {QComplex, QComplexPassword} :
        LET found == SemanticGet(semantic_index[owner_id], Embed(query), "")
        IN  sc_last' = [owner |-> owner_id, embedding |-> Embed(query),
                        filters_hash |-> "",
                        response |-> found[1], score |-> found[2]]
    /\ UNCHANGED <<sc_log, sc_invalidated, sc_sets>>
    /\ UNCHANGED <<ext_vars, an_vars, ex_vars, rq_vars, cache_vars, ix_vars, rt_last>>

\* The caller of index_single or of the cache takes the result.
IndexReturn ==
    /\ ~IndexCallsIdle
    /\ ix_last' = NoIndexCall
    /\ sc_last' = NoLookup
    /\ UNCHANGED <<sc_log, sc_invalidated, sc_sets>>
    /\ UNCHANGED <<entities, content_embeddings, ix_changes, ix_ops, rt_last>>
    /\ UNCHANGED <<ext_vars, an_vars, ex_vars, rq_vars, cache_vars>>

IndexInit == AnalyzeIdle /\ ExecIdle /\ ChatIdle /\ StoreIdle

IndexNext ==
    \/ SaveEntity
    \/ DeleteEntity
    \/ IndexSingle
    \/ IndexedCacheSet
    \/ IndexedCacheGet
    \/ IndexReturn

SpecIndex == IndexInit /\ [][IndexNext]_vars

(***************************************************************************)
(* Specification of the retrieval service: RetrievalService.search and     *)
(* search_excluding_sensitive over a store of ContentEmbedding records.    *)
(***************************************************************************)
DEFAULT_TOP_K == 10
MAX_TOP_K == 50

\* The columns of a ContentEmbedding record that retrieval reads.  A record
\* without embedding has the empty vector; the other records lie close to
\* the embedding of the question or opposite to it.
RecordFlags ==
    { [is_deleted |-> FALSE, is_indexed |-> TRUE, embedding |-> <<24, 7, 0, 0>>],
      [is_deleted |-> FALSE, is_indexed |-> TRUE, embedding |-> <<-24, -7, 0, 0>>],
      [is_deleted |-> TRUE, is_indexed |-> TRUE, embedding |-> <<24, 7, 0, 0>>],
      [is_deleted |-> FALSE, is_indexed |-> FALSE, embedding |-> <<24, 7, 0, 0>>],
      [is_deleted |-> FALSE, is_indexed |-> TRUE, embedding |-> <<>>] }

RetrievalRecords ==
    { [owner |-> o, tipo |-> t, sensibilidade |-> sn, content_type |-> ct,
       tags |-> tg, data_referencia |-> d, is_deleted |-> f.is_deleted,
       is_indexed |-> f.is_indexed, embedding |-> f.embedding] :
        o \in Owners, t \in TipoConteudo, sn \in Sensibilidade,
        ct \in {"expense", "password"}, tg \in {{}, {"t1"}},
        d \in {0, 1, 3}, f \in RecordFlags }

RECURSIVE StoresUpTo(_)
StoresUpTo(n) ==
    IF n = 0 THEN {{}}
    ELSE LET smaller == StoresUpTo(n - 1)
         IN  smaller \cup { st \cup {r} : st \in smaller, r \in RetrievalRecords }

RetrievalStores == StoresUpTo(MaxStored)

\* The filters a caller supplies; "bogus" is a value outside of the enum.
RetrievalFilters ==
    [tipos : {{}, {SEGURANCA}, {"bogus"}},
     sensibilidades : {{}, {BAIXA, MEDIA}, {"bogus"}},
     tags : {{}, {"t1", "t2"}},
     content_types : {{}, {"expense"}},
     data_inicio : {0, 2},
     data_fim : {0, 2}]

\* FilterBuilder.build, as the predicate its Q object is on a record
FilterMatches(r, owner_id, tipos, sensibilidades, tags, content_types, data_inicio, data_fim, only_indexed) ==
    LET valid_tipos == { t \in tipos : t \in TipoConteudo }
        valid_sens == { x \in sensibilidades : x \in Sensibilidade }
    IN  /\ r.owner = owner_id /\ ~r.is_deleted
        /\ only_indexed => (r.is_indexed /\ r.embedding # <<>>)
        /\ (tipos # {} /\ valid_tipos # {}) => r.tipo \in valid_tipos
        /\ (sensibilidades # {} /\ valid_sens # {}) => r.sensibilidade \in valid_sens
        /\ tags # {} => (\E tag \in tags : tag \in r.tags)
        /\ content_types # {} => r.content_type \in content_types
        /\ data_inicio # 0 => (r.data_referencia # 0 /\ r.data_referencia >= data_inicio)
        /\ data_fim # 0 => (r.data_referencia # 0 /\ r.data_referencia <= data_fim)

\* CosineDistance of pgvector: 1 - cosine similarity, in ten-thousandths
CosineDistance(embedding, query_embedding) ==
    10000 - CosineSimilarity(embedding, query_embedding)

\* A slip that cuts the score at 0.
ScoreClamped(distance) == IF 10000 - distance < 0 THEN 0 ELSE 10000 - distance

\* score = 1 - embedding.distance
ScoreOf(distance) == 10000 - distance

\* order_by('distance')
RECURSIVE OrderByDistance(_, _)
OrderByDistance(rows, query_embedding) ==
    IF rows = {} THEN <<>>
    ELSE LET first == CHOOSE r \in rows : \A q \in rows :
                         CosineDistance(r.embedding, query_embedding)
                            <= CosineDistance(q.embedding, query_embedding)
         IN  <<first>> \o OrderByDistance(rows \ {first}, query_embedding)

\* RetrievalService.search; top_k = 0 stands for None
search(store, query_embedding, owner_id, filters, top_k) ==
    LET k == Min(IF top_k = 0 THEN DEFAULT_TOP_K ELSE top_k, MAX_TOP_K)
        rows == { r \in store :
                    FilterMatches(r, owner_id, filters.tipos, filters.sensibilidades,
                                  filters.tags, filters.content_types,
                                  filters.data_inicio, filters.data_fim, TRUE) }
        ordered == OrderByDistance(rows, query_embedding)
        queryset == SubSeq(ordered, 1, Min(k, Len(ordered)))
    IN  [i \in 1..Len(queryset) |->
            LET distance == CosineDistance(queryset[i].embedding, query_embedding)
            IN  [content_embedding |-> queryset[i],
                 score |-> ScoreOf(distance), distance |-> distance]]

Search ==
    /\ rt_last = NoSearch
    /\ \E owner_id \in Owners, filters \in RetrievalFilters, top_k \in {0, 1} :
        rt_last' = [owner |-> owner_id, filters |-> filters, top_k |-> top_k,
                    variant |-> "search",
                    results |-> search(content_embeddings, Embed(QComplex), owner_id,
                                       filters, top_k)]
    /\ UNCHANGED <<ext_vars, an_vars, ex_vars, rq_vars, cache_vars, sc_vars, ix_vars>>

\* search_excluding_sensitive: RetrievalFilter(sensibilidades=['baixa', 'media'])
SearchExcludingSensitive ==
    /\ rt_last = NoSearch
    /\ \E owner_id \in Owners, top_k \in {0, 1} :
        LET filters == [NoFilter EXCEPT !.sensibilidades = {BAIXA, MEDIA}]
        IN  rt_last' = [owner |-> owner_id, filters |-> filters, top_k |-> top_k,
                        variant |-> "excluding_sensitive",
                        results |-> search(content_embeddings, Embed(QComplex),
                                           owner_id, filters, top_k)]
    /\ UNCHANGED <<ext_vars, an_vars, ex_vars, rq_vars, cache_vars, sc_vars, ix_vars>>

\* The caller takes the results.
SearchReturn ==
    /\ rt_last # NoSearch
    /\ rt_last' = NoSearch
    /\ UNCHANGED <<ext_vars, an_vars, ex_vars, rq_vars, cache_vars, sc_vars, ix_vars>>

RetrieveInit ==
    /\ AnalyzeIdle /\ ExecIdle /\ ChatIdle
    /\ InterpretIdle
    /\ RetryIdle
    /\ ServiceIdle
    /\ WritersIdle
    /\ rt_last = NoSearch
    /\ sc_last = NoLookup
    /\ sc_log = <<>>
    /\ sc_invalidated = {}
    /\ sc_sets = 0
    /\ entities = [i \in Items |-> NoEntity]
    /\ content_embeddings \in RetrievalStores
    /\ ix_last = NoIndexCall
    /\ ix_changes = [o \in Owners |-> 0]
    /\ ix_ops = 0

RetrieveNext ==
    \/ Search
    \/ SearchExcludingSensitive
    \/ SearchReturn

SpecRetrieve == RetrieveInit /\ [][RetrieveNext]_vars

(***************************************************************************)
(* Specification of the question endpoint: pergunta hands the question and *)
(* the caller's member id to QueryInterpreter.interpret, runs the          *)
(* statement it returns with DatabaseExecutor.execute and answers with     *)
(* the rows.  A question is the set of the words it contains, out of       *)
(* QIWords; every table holds one row of each member.                      *)
(***************************************************************************)
MaxKeywords == 2

QIWords == {"despesa", "receita", "saldo", "fatura", "emprestimo", "livro", "tarefa", "senha", "cofre", "pix", "total", "quantos", "categoria", "netflix", "hoje"}

QIQuestions == {q \in SUBSET QIWords : Cardinality(q) <= MaxKeywords}

\* The keys of MODULE_KEYWORDS in the order of the dictionary.
MODULE_ORDER == <<"revenues", "expenses", "accounts", "credit_cards", "loans", "library", "personal_planning", "security", "vaults", "transfers">>

\* The keywords of a module that occur in some word of QIWords.
MODULE_KEYWORDS(module) ==
    CASE module = "revenues" -> {"receita"}
      [] module = "expenses" -> {"despesa"}
      [] module = "accounts" -> {"saldo"}
      [] module = "credit_cards" -> {"fatura"}
      [] module = "loans" -> {"emprestimo"}
      [] module = "library" -> {"livro", "li"}
      [] module = "personal_planning" -> {"tarefa", "hoje"}
      [] module = "security" -> {"senha", "netflix"}
      [] module = "vaults" -> {"cofre"}
      [] module = "transfers" -> {"pix"}
      [] OTHER -> {}

\* kw in question_lower: the keyword is a substring of the question.
InQuestion(kw, question) ==
    \/ kw \in question
    \/ kw = "li" /\ question \cap {"livro", "netflix"} # {}

ModuleScore(question, module) ==
    Cardinality({kw \in MODULE_KEYWORDS(module) : InQuestion(kw, question)})

\* max(scores, key=scores.get): the first module of the dictionary among
\* those of the highest score, "unknown" when no keyword occurs.
_detect_module(question) ==
    LET scored == {i \in 1..Len(MODULE_ORDER) : ModuleScore(question, MODULE_ORDER[i]) > 0}
        best == {i \in scored : \A j \in scored :
                     ModuleScore(question, MODULE_ORDER[j]) <= ModuleScore(question, MODULE_ORDER[i])}
    IN  IF scored = {} THEN "unknown"
        ELSE MODULE_ORDER[CHOOSE i \in best : \A j \in best : i <= j]

NoTimeRange == [start_date |-> "", end_date |-> ""]

_get_time_range(question) ==
    IF InQuestion("hoje", question)
    THEN [start_date |-> "today", end_date |-> "today"]
    ELSE NoTimeRange

_detect_aggregation(question) ==
    IF InQuestion("total", question) THEN "sum"
    ELSE IF InQuestion("media", question) THEN "avg"
    ELSE IF InQuestion("maior", question) THEN "max"
    ELSE IF InQuestion("menor", question) THEN "min"
    ELSE IF InQuestion("quantos", question) THEN "count"
    ELSE "list"

\* The category of the first keyword of the module's dictionary found in
\* the question; "" stands for None.
_detect_category_filter(question, module) ==
    IF module = "expenses" /\ InQuestion("netflix", question) THEN "digital signs"
    ELSE ""

\* The values bound to the placeholders of a statement.
MemberParam(member_id) == [kind |-> "member_id", id |-> member_id, text |-> ""]

ValueParam(text) == [kind |-> "value", id |-> 0, text |-> text]

\* A QueryResult: the table its statement selects from, whether the WHERE
\* clause holds "owner_id = %s" (always the first placeholder), the params.
QueryResult(module, table, owner_filter, params) ==
    [kind |-> "statement", module |-> module, table |-> table, owner_filter |-> owner_filter, params |-> params]

\* base_conditions and params as the revenue, expense and transfer
\* builders extend them.
RangeParams(range) ==
    IF range # NoTimeRange THEN <<ValueParam(range.start_date), ValueParam(range.end_date)>> ELSE <<>>

CategoryParams(category) ==
    IF category # "" THEN <<ValueParam(category)>> ELSE <<>>

_query_revenues(question, member_id, range, aggregation, category) ==
    QueryResult("revenues", "revenues_revenue", FALSE, RangeParams(range) \o CategoryParams(category))

_query_expenses(question, member_id, range, aggregation, category) ==
    QueryResult("expenses", "expenses_expense", FALSE, RangeParams(range) \o CategoryParams(category))

_query_accounts(question, member_id, range, aggregation, category) ==
    QueryResult("accounts", "accounts_account", FALSE, <<>>)

_query_credit_cards(question, member_id, range, aggregation, category) ==
    IF InQuestion("limite", question)
    THEN QueryResult("credit_cards", "credit_cards_creditcard", FALSE, <<>>)
    ELSE IF InQuestion("fatura", question)
    THEN QueryResult("credit_cards", "credit_cards_creditcardbill", FALSE, <<>>)
    ELSE QueryResult("credit_cards", "credit_cards_creditcard", FALSE, <<>>)

_query_loans(question, member_id, range, aggregation, category) ==
    QueryResult("loans", "loans_loan", FALSE, <<>>)

_query_library(question, member_id, range, aggregation, category) ==
    IF InQuestion("lendo", question)
    THEN QueryResult("library", "library_book", TRUE, <<MemberParam(member_id)>>)
    ELSE IF InQuestion("ja li", question)
    THEN QueryResult("library", "library_book", TRUE, <<MemberParam(member_id)>>)
    ELSE IF InQuestion("leitura", question)
    THEN QueryResult("library", "library_reading", TRUE, <<MemberParam(member_id)>> \o RangeParams(range))
    ELSE QueryResult("library", "library_book", TRUE, <<MemberParam(member_id)>>)

_query_personal_planning(question, member_id, range, aggregation, category) ==
    IF InQuestion("hoje", question)
    THEN QueryResult("personal_planning", "personal_planning_taskinstance", TRUE,
                     <<MemberParam(member_id), ValueParam("today")>>)
    ELSE IF InQuestion("pendente", question)
    THEN QueryResult("personal_planning", "personal_planning_taskinstance", TRUE,
                     <<MemberParam(member_id), ValueParam("today")>>)
    ELSE IF InQuestion("meta", question)
    THEN QueryResult("personal_planning", "personal_planning_goal", TRUE, <<MemberParam(member_id)>>)
    ELSE IF InQuestion("conclui", question)
    THEN QueryResult("personal_planning", "personal_planning_taskinstance", TRUE,
                     <<MemberParam(member_id), ValueParam("week_ago")>>)
    ELSE QueryResult("personal_planning", "personal_planning_routinetask", TRUE, <<MemberParam(member_id)>>)

_query_security(question, member_id, range, aggregation, category) ==
    IF InQuestion("netflix", question)
    THEN QueryResult("security", "security_password", TRUE,
                     <<MemberParam(member_id), ValueParam("%netflix%"), ValueParam("%netflix%")>>)
    ELSE QueryResult("security", "security_password", TRUE, <<MemberParam(member_id)>>)

_query_vaults(question, member_id, range, aggregation, category) ==
    QueryResult("vaults", "vaults_vault", FALSE, <<>>)

_query_transfers(question, member_id, range, aggregation, category) ==
    QueryResult("transfers", "transfers_transfer", FALSE, RangeParams(range))

\* interpret finds _query_unknown with hasattr and calls it with the seven
\* arguments of a module's builder; it takes two, so the call raises.
InterpretTypeError == [kind |-> "TypeError", module |-> "unknown", table |-> "", owner_filter |-> FALSE, params |-> <<>>]

interpret(question, member_id) ==
    LET module == _detect_module(question)
        range == _get_time_range(question)
        aggregation == _detect_aggregation(question)
        category == _detect_category_filter(question, module)
    IN  CASE module = "revenues" -> _query_revenues(question, member_id, range, aggregation, category)
          [] module = "expenses" -> _query_expenses(question, member_id, range, aggregation, category)
          [] module = "accounts" -> _query_accounts(question, member_id, range, aggregation, category)
          [] module = "credit_cards" -> _query_credit_cards(question, member_id, range, aggregation, category)
          [] module = "loans" -> _query_loans(question, member_id, range, aggregation, category)
          [] module = "library" -> _query_library(question, member_id, range, aggregation, category)
          [] module = "personal_planning" -> _query_personal_planning(question, member_id, range, aggregation, category)
          [] module = "security" -> _query_security(question, member_id, range, aggregation, category)
          [] module = "vaults" -> _query_vaults(question, member_id, range, aggregation, category)
          [] module = "transfers" -> _query_transfers(question, member_id, range, aggregation, category)
          [] OTHER -> InterpretTypeError

QITables == {"revenues_revenue", "expenses_expense", "accounts_account", "credit_cards_creditcard", "credit_cards_creditcardbill", "loans_loan", "library_book", "library_reading", "personal_planning_taskinstance", "personal_planning_goal", "personal_planning_routinetask", "security_password", "vaults_vault", "transfers_transfer"}

\* The database: every table holds a row of every member.
DatabaseRows == [table : QITables, owner : Owners]

\* DatabaseExecutor.execute: cursor.execute(sql, params) reads the rows of
\* the statement's table that its WHERE clause admits.
DatabaseExecute(query_result) ==
    IF query_result.table = "" THEN {}
    ELSE {r \in DatabaseRows :
            /\ r.table = query_result.table
            /\ query_result.owner_filter => r.owner = query_result.params[1].id}

\* pergunta receives a question of an authenticated user who has a member.
PerguntaReceive ==
    /\ qi_pc = "idle"
    /\ \E q \in QIQuestions, m \in Owners :
        /\ qi_question' = q
        /\ qi_member_id' = m
    /\ qi_pc' = "received"
    /\ UNCHANGED <<qi_result, qi_data>>
    /\ UNCHANGED <<an_vars, ex_vars, rq_vars, cache_vars, store_vars, retry_vars, sv_vars, cw_vars>>

\* Step 1 of pergunta: interpret(pergunta_texto, member.id).
PerguntaInterpret ==
    /\ qi_pc = "received"
    /\ qi_result' = interpret(qi_question, qi_member_id)
    /\ qi_pc' = "interpreted"
    /\ UNCHANGED <<qi_question, qi_member_id, qi_data>>
    /\ UNCHANGED <<an_vars, ex_vars, rq_vars, cache_vars, store_vars, retry_vars, sv_vars, cw_vars>>

\* Steps 2 to 5 of pergunta: an exception is answered with status 500, a
\* special module with its text, a statement with the rows it read.
PerguntaRespond ==
    /\ qi_pc = "interpreted"
    /\ IF qi_result.kind = "TypeError"
       THEN qi_pc' = "error" /\ qi_data' = {}
       ELSE IF qi_result.module \in {"greeting", "help", "unknown", "restricted"}
       THEN qi_pc' = "responded" /\ qi_data' = {}
       ELSE qi_pc' = "responded" /\ qi_data' = DatabaseExecute(qi_result)
    /\ UNCHANGED <<qi_question, qi_member_id, qi_result>>
    /\ UNCHANGED <<an_vars, ex_vars, rq_vars, cache_vars, store_vars, retry_vars, sv_vars, cw_vars>>

\* The next request of the endpoint.
PerguntaNextRequest ==
    /\ qi_pc \in {"responded", "error"}
    /\ qi_pc' = "idle"
    /\ qi_question' = {}
    /\ qi_member_id' = 0
    /\ qi_result' = NoQueryResult
    /\ qi_data' = {}
    /\ UNCHANGED <<an_vars, ex_vars, rq_vars, cache_vars, store_vars, retry_vars, sv_vars, cw_vars>>

InterpretInit == AnalyzeIdle /\ ExecIdle /\ ChatIdle /\ StoreIdle

InterpretNext ==
    \/ PerguntaReceive
    \/ PerguntaInterpret
    \/ PerguntaRespond
    \/ PerguntaNextRequest

SpecInterpret == InterpretInit /\ [][InterpretNext]_vars

(***************************************************************************)
(* Properties                                                              *)
(***************************************************************************)
RestrictedContent(c) == c.sensibilidade = ALTA \/ c.tipo = SEGURANCA

\* C1: on either path of ChatService.query, no content that is
\* high-sensitivity or of the restricted (security) category, rows read from
\* the relational store included, is sent to the remote provider.
C1_NoRestrictedContentToRemote ==
    \A c \in remote_sent : ~RestrictedContent(c)

\* C2: whenever the results contain a high-sensitivity item or an item of
\* the security category, analyze returns requires_local = TRUE, whatever
\* the complexity of the question.
C2_RestrictedResultsRequireLocal ==
    an_done =>
        ((\E i \in 1..Len(an_results) : RestrictedContent(an_results[i]))
            => an_out.requires_local)

C2_Witness ==
    /\ an_done
    /\ an_out.query_complexity = COMPLEX
    /\ an_out.requires_local
    /\ Len(an_results) = 2
    /\ an_results[1].sensibilidade = ALTA
    /\ an_results[2].sensibilidade = BAIXA
    /\ \A i \in 1..2 : an_results[i].tipo # SEGURANCA
    /\ ~_mentions_security(an_query)

\* C3: the decision is remote only if every result is low-sensitivity, no
\* result is of the security category, the question contains no security
\* keyword and the question is classified complex; a greeting is always
\* answered locally.
C3_RemoteOnlyForLowComplex ==
    an_done =>
        /\ ~an_out.requires_local =>
              /\ \A i \in 1..Len(an_results) :
                    /\ an_results[i].sensibilidade = BAIXA
                    /\ an_results[i].tipo # SEGURANCA
              /\ an_query.kws \cap SECURITY_KEYWORDS = {}
              /\ an_out.query_complexity = COMPLEX
        /\ (an_query.words <= 5 /\ an_query.kws \cap GREETING_KEYWORDS # {})
              => an_out.requires_local

C3_Witness ==
    /\ an_done
    /\ ~an_out.requires_local
    /\ Len(an_results) = 2
    /\ an_query.words > 15
    /\ Cardinality(an_query.kws \cap COMPLEX_KEYWORDS) = 1

SqlErrorClasses ==
    {"SQLGenerationError", "SQLValidationError", "QueryExecutionError",
     "QueryTimeoutError"}

RagPositions == {"rag_embed", "rag_check_cache", "rag_retrieve", "rag_generate",
                 "rag_cache", "done"}

\* C4: once Generate, Validate or Execute has failed, the request is on the
\* RAG path, what the caller receives was produced by the RAG path, and no
\* SQL error is ever raised to the caller.
C4_SqlFailureFallsBackToRag ==
    /\ sql_error # "none" =>
          /\ pc \in RagPositions
          /\ outcome.kind = "response" => outcome.execution_mode = "rag"
    /\ outcome.kind = "error" => outcome.error.class \notin SqlErrorClasses

C4_Witness ==
    /\ sql_error = "QueryTimeoutError"
    /\ pc = "done"
    /\ outcome.kind = "response"
    /\ outcome.execution_mode = "rag"
    /\ outcome.provider = "ollama"

\* C5: the statement handed to the executor by the chat service contains no
\* write/DDL keyword and carries the owner predicate bound to the caller,
\* even if the generated statement had none.
C5_ExecutedStatementIsReadOnlyAndOwnerScoped ==
    (ex_caller = "chat" /\ ex_pc # "idle") =>
        /\ ~ex_sql.write_kw
        /\ req.owner \in ex_sql.owner_preds

C5_Witness ==
    /\ ex_caller = "chat"
    /\ ex_pc = "run"
    /\ gen_sql.owner_preds = {}
    /\ req.owner \in ex_sql.owner_preds

\* C6: when the provider chosen by the routing is unavailable or its call
\* fails, no generation call goes to the other provider and the caller of
\* query receives the provider failure.
C6_NoFallbackToOtherProvider ==
    routing.failed =>
        /\ \A c \in provider_calls :
              c.purpose = "rag" => c.provider = routing.chosen
        /\ outcome.kind = "error"
        /\ outcome.error.class \in {"ProviderUnavailableError", "ProviderError"}

C6_Witness ==
    /\ routing.failed
    /\ routing.chosen = "ollama"
    /\ pc = "done"
    /\ outcome.error.class = "ProviderUnavailableError"

\* C7: while the statement runs the timeout is in force; a statement the
\* server cancels for running past it makes execute raise
\* QueryTimeoutError; and when execute has returned or raised, on any path,
\* statement_timeout is back at the server default.
C7_TimeoutRaisedAndReset ==
    /\ ex_pc = "run" => statement_timeout = DEFAULT_TIMEOUT
    /\ ex_pc \in {"returned", "raised"} =>
          /\ statement_timeout = SERVER_DEFAULT
          /\ ex_outcome = "timeout" =>
                (ex_pc = "raised" /\ ex_error.class = "QueryTimeoutError")

C7_Witness ==
    /\ ex_pc = "raised"
    /\ ex_set
    /\ ex_outcome = "timeout"
    /\ ex_error.class = "QueryTimeoutError"
    /\ statement_timeout = SERVER_DEFAULT

\* C8: a returned QueryResult has at most max_rows rows, and its truncation
\* flag is set exactly when the statement produced more rows than max_rows.
C8_RowCapAndTruncation ==
    ex_pc = "returned" =>
        /\ ex_result.row_count <= max_rows
        /\ ex_result.truncated <=> (ex_produced > max_rows)

C8_Witness ==
    /\ ex_pc = "returned"
    /\ ex_produced > max_rows
    /\ ex_result.truncated
    /\ ex_result.row_count = max_rows

\* C9: no entry of the exact tier or of a semantic list holds a response
\* whose maximum sensitivity is high or that was produced while
\* conversation history was supplied.
C9_NoSensitiveOrContextualResponseCached ==
    /\ \A e \in exact_cache :
          e.payload.max_sensitivity # ALTA /\ ~e.payload.history
    /\ \A o \in Owners : \A i \in 1..Len(semantic_index[o]) :
          /\ semantic_index[o][i].response.max_sensitivity # ALTA
          /\ ~semantic_index[o][i].response.history

C9_Witness ==
    /\ pc = "done"
    /\ req.use_cache
    /\ ~req.history
    /\ outcome.kind = "response"
    /\ ~outcome.cached
    /\ outcome.max_sensitivity = ALTA
    /\ exact_cache = {}
    /\ \A o \in Owners : semantic_index[o] = <<>>

\* C10: after a cache round trip has failed the request goes on as on a
\* miss (retrieval, generation, response), nothing is served from the
\* cache, and no cache error reaches the caller.
C10_CacheFailureRecovered ==
    /\ cache_fault =>
          /\ pc \in {"rag_retrieve", "rag_generate", "rag_cache", "done"}
          /\ ~outcome.cached
    /\ outcome.kind = "error" => outcome.error.class # "CacheError"

C10_Witness ==
    /\ cache_fault
    /\ pc = "done"
    /\ outcome.kind = "response"
    /\ exact_cache # {}
    /\ semantic_index[req.owner] = <<>>

\* The set calls of an owner that no later set call of the same normalized
\* question, for that owner, has replaced.
LatestOf(owner_id) ==
    LET mine == SelectSeq(sc_log, LAMBDA e : e.owner = owner_id)
        Live(i) == \A j \in (i + 1)..Len(mine) :
                      Normalize(mine[j].query) # Normalize(mine[i].query)
        idx == { i \in 1..Len(mine) : Live(i) }
        RECURSIVE Pick(_)
        Pick(i) == IF i > Len(mine) THEN <<>>
                   ELSE IF i \in idx THEN <<mine[i].stamp>> \o Pick(i + 1)
                   ELSE Pick(i + 1)
    IN  Pick(1)

\* C12: after invalidate_content(kind, id, owner) has returned, the owner's
\* semantic list is empty and every get for that owner misses, until a
\* later set for that owner.
C12_InvalidateContentClearsOwnerList ==
    \A r \in sc_invalidated :
        /\ semantic_index[r.owner] = <<>>
        /\ sc_last.owner = r.owner => sc_last.response = NoPayload

C12_Witness ==
    \E r \in sc_invalidated :
        /\ r.cleared > 0
        /\ sc_last.owner = r.owner
        /\ \E o \in Owners : semantic_index[o] # <<>>

\* C13: after any sequence of set calls for an owner, the owner's list holds
\* at most max_entries entries and at most one entry per normalized
\* question, and it is made of the most recent of the entries not replaced:
\* beyond the cap the oldest ones are dropped.
C13_SemanticListBoundedAndNewest ==
    \A o \in Owners :
        LET index == semantic_index[o]
            latest == LatestOf(o)
            kept == IF Len(latest) <= SemMaxEntries THEN latest
                    ELSE SubSeq(latest, Len(latest) - SemMaxEntries + 1, Len(latest))
        IN  /\ Len(index) <= SemMaxEntries
            /\ \A i, j \in 1..Len(index) :
                  i # j => Normalize(index[i].query) # Normalize(index[j].query)
            /\ [i \in 1..Len(index) |-> index[i].response.stamp] = kept

C13_Witness ==
    \E o \in Owners :
        /\ Len(LatestOf(o)) > SemMaxEntries
        /\ Len(semantic_index[o]) = SemMaxEntries

\* C14: a lookup hits exactly when an entry with the same filter signature
\* has a similarity >= the threshold (equal to the threshold included); the
\* entry returned has the highest score, and among entries of equal highest
\* score it is the first of the list.
C14_SemanticGetThresholdAndTies ==
    sc_last # NoLookup =>
        LET index == semantic_index[sc_last.owner]
            Score(i) == CosineSimilarity(sc_last.embedding, index[i].embedding)
            matching == { i \in 1..Len(index) :
                            /\ index[i].filters_hash = sc_last.filters_hash
                            /\ Score(i) >= SIMILARITY_THRESHOLD }
        IN  IF matching = {} THEN sc_last.response = NoPayload
            ELSE LET top == CHOOSE i \in matching :
                              \A j \in matching :
                                  \/ Score(j) < Score(i)
                                  \/ Score(j) = Score(i) /\ i <= j
                 IN  /\ sc_last.response = index[top].response
                     /\ sc_last.score = Score(top)

C14_Witness ==
    /\ sc_last # NoLookup
    /\ LET index == semantic_index[sc_last.owner]
       IN  /\ Len(index) = 2
           /\ index[1].filters_hash = sc_last.filters_hash
           /\ index[2].filters_hash = sc_last.filters_hash
           /\ CosineSimilarity(sc_last.embedding, index[1].embedding) = SIMILARITY_THRESHOLD
           /\ CosineSimilarity(sc_last.embedding, index[2].embedding) = SIMILARITY_THRESHOLD
           /\ sc_last.response = index[1].response
           /\ sc_last.score = SIMILARITY_THRESHOLD

\* C11: whenever a ContentEmbedding record of an owner is created, updated
\* or deleted by the indexing path, the owner's semantic cache entries are
\* invalidated: no later semantic hit returns a response computed before
\* the change.
C11_NoSemanticHitFromBeforeAChange ==
    sc_last.response # NoPayload =>
        sc_last.response.stamp = ix_changes[sc_last.owner]

\* The cases C15 is about: index_single has returned from a call on an item
\* whose source entity exists and whose record is indexed.
C15_OnIndexedItem ==
    /\ ix_last # NoIndexCall
    /\ ix_last.source_exists
    /\ ix_last.before # NoRecord
    /\ ix_last.before.is_indexed

C16_IndexFollowsSourceEntity ==
    \A id \in Items :
        /\ (entities[id].status = "live" /\ entities[id].owner # 0) =>
              \E r \in content_embeddings :
                  /\ r.content_id = id
                  /\ r.owner = entities[id].owner
                  /\ r.is_indexed
                  /\ r.version = entities[id].version
        /\ entities[id].status = "deleted" =>
              ~ \E r \in content_embeddings : r.content_id = id

\* C17: every result of search belongs to the requesting owner, has a
\* computed embedding and satisfies all the filters supplied at once
\* (content kind, sensitivity set, at least one of the tags, date range);
\* search_excluding_sensitive never returns a high-sensitivity item.
C17_ResultsSatisfyAllFilters ==
    \A i \in 1..Len(rt_last.results) :
        LET r == rt_last.results[i].content_embedding
            f == rt_last.filters
        IN  /\ r.owner = rt_last.owner
            /\ r.is_indexed /\ r.embedding # <<>>
            /\ f.tipos # {} => r.tipo \in f.tipos
            /\ f.sensibilidades # {} => r.sensibilidade \in f.sensibilidades
            /\ f.tags # {} => f.tags \cap r.tags # {}
            /\ f.data_inicio # 0 => (r.data_referencia # 0 /\ r.data_referencia >= f.data_inicio)
            /\ f.data_fim # 0 => (r.data_referencia # 0 /\ r.data_referencia <= f.data_fim)
            /\ rt_last.variant = "excluding_sensitive" => r.sensibilidade # ALTA

\* C18: for every RetrievalResult returned, score = 1 - distance exactly.
C18_ScoreIsOneMinusDistance ==
    \A i \in 1..Len(rt_last.results) :
        rt_last.results[i].score = 10000 - rt_last.results[i].distance

C18_Witness ==
    /\ rt_last # NoSearch
    /\ \E i \in 1..Len(rt_last.results) : rt_last.results[i].distance > 10000

\* C19: every RetrievalResult returned has a score in [0, 1] and a cosine
\* distance in [0, 2].
C19_ScoreAndDistanceRanges ==
    \A i \in 1..Len(rt_last.results) :
        /\ 0 <= rt_last.results[i].score /\ rt_last.results[i].score <= 10000
        /\ 0 <= rt_last.results[i].distance /\ rt_last.results[i].distance <= 20000

\* C20 as stated: for a question with password or credential vocabulary,
\* whatever the sensitivity of the results, analyze returns requires_local
\* = TRUE with a reason that names the question, not the retrieved content.
C20_PasswordQuestionReasonNamesQuestion ==
    (an_done /\ an_query.kws \cap SECURITY_KEYWORDS # {}) =>
        /\ an_out.requires_local
        /\ an_out.reason = "Pergunta menciona topicos de seguranca"

\* C20 amended: for such a question analyze returns requires_local = TRUE
\* whatever the results; the reason names the question when no result is
\* high-sensitivity or of the security category, and names the retrieved
\* content otherwise (rules 1 and 2 come before rule 3).
C20_PasswordQuestionLocalReasonByPriority ==
    (an_done /\ an_query.kws \cap SECURITY_KEYWORDS # {}) =>
        /\ an_out.requires_local
        /\ an_out.reason =
              IF \E i \in 1..Len(an_results) : an_results[i].sensibilidade = ALTA
              THEN "Dados de alta sensibilidade detectados"
              ELSE IF \E i \in 1..Len(an_results) : an_results[i].tipo = SEGURANCA
              THEN "Conteudo do modulo de seguranca detectado"
              ELSE "Pergunta menciona topicos de seguranca"

C20_Witness ==
    /\ an_done
    /\ "password" \in an_query.kws
    /\ an_out.query_complexity = COMPLEX
    /\ Len(an_results) = 2
    /\ \A i \in 1..Len(an_results) :
          an_results[i].sensibilidade = BAIXA /\ an_results[i].tipo # SEGURANCA
    /\ an_out.requires_local
    /\ an_out.reason = "Pergunta menciona topicos de seguranca"

\* C21 as stated: a question with comparison/trend vocabulary whose matched
\* content is all low-sensitivity gets the routing decision remote.
C21_TrendQuestionLowContentRemote ==
    (/\ an_done
     /\ an_query.kws \cap COMPLEX_KEYWORDS # {}
     /\ \A i \in 1..Len(an_results) : an_results[i].sensibilidade = BAIXA) =>
        /\ ~an_out.requires_local
        /\ RouterChoice(an_query, an_results).decision = "cloud"

\* C21 amended: the decision is remote when, besides, the question counts
\* as complex (two complexity keywords, or one in a question of more than
\* 15 words, and no greeting of at most five words), it holds no security
\* vocabulary, and no matched item is of the security category.
C21_ComplexTrendQuestionLowContentRemote ==
    (/\ an_done
     /\ an_query.kws \cap COMPLEX_KEYWORDS # {}
     /\ \A i \in 1..Len(an_results) : an_results[i].sensibilidade = BAIXA
     /\ ~(an_query.words <= 5 /\ an_query.kws \cap GREETING_KEYWORDS # {})
     /\ \/ Cardinality(an_query.kws \cap COMPLEX_KEYWORDS) >= 2
        \/ an_query.words > 15
     /\ an_query.kws \cap SECURITY_KEYWORDS = {}
     /\ \A i \in 1..Len(an_results) : an_results[i].tipo # SEGURANCA) =>
        /\ ~an_out.requires_local
        /\ an_out.reason = "Query complexa com baixa sensibilidade"
        /\ RouterChoice(an_query, an_results).decision = "cloud"

C21_Witness ==
    /\ an_done
    /\ an_query.kws = {"analise", "tendencia"}
    /\ an_query.words = 7
    /\ Len(an_results) = 2
    /\ \A i \in 1..Len(an_results) :
          an_results[i].sensibilidade = BAIXA /\ an_results[i].tipo = FINANCEIRO
    /\ ~an_out.requires_local

\* The errors the caller is meant to see as they are: a provider that is
\* not configured or not ready (the router's errors), and an embedding
\* server that cannot be reached.
C22_SurfacedErrors ==
    {MakeError("ProviderUnavailableError", "ollama"),
     MakeError("ProviderUnavailableError", "groq"),
     MakeError("ProviderError", "ollama"), MakeError("ProviderError", "groq"),
     MakeError("EmbeddingError", "connection")}

\* C22: when the SQL path has failed and query went on to the RAG path,
\* query ends with a response (the "no relevant information" one when the
\* RAG path has nothing), and raises only a configuration error.
C22_BothPathsFailPoliteResponse ==
    (/\ pc = "done"
     /\ req.use_sql
     /\ sql_error \in {"SQLGenerationError", "SQLValidationError",
                       "QueryExecutionError", "QueryTimeoutError"}) =>
        \/ outcome.kind = "response"
        \/ outcome.kind = "error" /\ outcome.error \in C22_SurfacedErrors

\* C23: execute_with_retry raises a QueryTimeoutError at its first
\* occurrence and never calls execute after one; it calls execute at most
\* max_retries + 1 times; and when it raises after executions that all
\* failed, the exception is the one the last execution raised, a
\* non-timeout one only once all max_retries + 1 attempts are used up.
C23_RetryBoundedAndNeverAfterTimeout ==
    /\ \A i \in 1..Len(rw_errors) :
          "QueryTimeoutError" \in Ancestors(rw_errors[i].class) =>
              /\ i = Len(rw_errors)
              /\ rw_pc = "raised"
              /\ rw_outcome.error = rw_errors[i]
              /\ rw_executions = i
    /\ rw_max_retries >= 0 => rw_executions <= rw_max_retries + 1
    /\ rw_max_retries < 0 => rw_executions = 0
    /\ Len(rw_errors) <= rw_executions
    /\ rw_pc = "sleeping" => rw_attempt < rw_max_retries
    /\ (rw_pc = "raised" /\ rw_errors # <<>>) =>
          /\ rw_outcome.kind = "raised"
          /\ rw_outcome.error = rw_errors[Len(rw_errors)]
          /\ Len(rw_errors) = rw_executions
          /\ \/ "QueryTimeoutError" \in Ancestors(rw_outcome.error.class)
             \/ rw_executions = rw_max_retries + 1

C23_Witness ==
    /\ rw_pc = "raised"
    /\ rw_max_retries = 2
    /\ rw_executions = 3
    /\ Len(rw_errors) = 3
    /\ rw_errors[1].error_type = "database_error"
    /\ rw_errors[2].error_type = "unexpected_error"
    /\ rw_outcome.error = MakeError("QueryExecutionError", "database_error")

\* C27 as stated: a set for a question under one filter signature leaves
\* the entry of the same owner and the same question under another filter
\* signature in the list, unchanged.
C27_SetKeepsEntryOfOtherSignature ==
    [][sc_sets' # sc_sets =>
         LET e == sc_log'[Len(sc_log')]
             old == semantic_index[e.owner]
             new == semantic_index'[e.owner]
         IN  \A i \in 1..Len(old) :
                (/\ Normalize(old[i].query) = Normalize(e.query)
                 /\ old[i].filters_hash # e.filters_hash) =>
                    \E j \in 1..Len(new) : new[j] = old[i]]_vars

\* C27 amended: such a set removes the entry of the same owner and the same
\* question whatever its filter signature (the list keeps one entry per
\* normalized question, the one just stored), and leaves the lists of the
\* other owners as they were.
C27_SetReplacesByQuestionOnly ==
    [][sc_sets' # sc_sets =>
         LET e == sc_log'[Len(sc_log')]
             new == semantic_index'[e.owner]
         IN  /\ \A o \in Owners \ {e.owner} : semantic_index'[o] = semantic_index[o]
             /\ \A j \in 1..Len(new) :
                   Normalize(new[j].query) = Normalize(e.query) =>
                       /\ j = Len(new)
                       /\ new[j].response.stamp = e.stamp
                       /\ new[j].filters_hash = e.filters_hash
             /\ new # <<>>
             /\ Normalize(new[Len(new)].query) = Normalize(e.query)]_vars

\* A set for a question followed by a set for the same question under
\* another filter signature: only the second entry is in the list.
C27_Witness ==
    \E i, j \in 1..Len(sc_log) :
        /\ i < j
        /\ sc_log[i].owner = sc_log[j].owner
        /\ Normalize(sc_log[i].query) = Normalize(sc_log[j].query)
        /\ sc_log[i].filters_hash # sc_log[j].filters_hash
        /\ \A k \in (i + 1)..Len(sc_log) : k # j => sc_log[k].owner # sc_log[i].owner
        /\ LET index == semantic_index[sc_log[j].owner]
           IN  /\ Len(index) = 1
               /\ index[1].response.stamp = sc_log[j].stamp
        /\ \E o \in Owners : o # sc_log[j].owner /\ semantic_index[o] # <<>>

\* The position in the history of the owner's last invalidate_content, 0
\* when there is none.
LastInvalidation(owner_id) ==
    LET at == { i \in 1..Len(sv_history) :
                  /\ sv_history[i].op = "invalidate_content"
                  /\ sv_history[i].owner = owner_id }
    IN  IF at = {} THEN 0 ELSE CHOOSE i \in at : \A j \in at : j <= i

\* C25 as stated: after invalidate_content for an owner has completed, a
\* get for that owner returns, from the exact or the semantic tier, no
\* response cached before the invalidation.
C25_NoResponseFromBeforeInvalidation ==
    sv_last.response # NoPayload =>
        sv_last.response.stamp > LastInvalidation(sv_last.owner)

\* C25 amended: the semantic tier returns no response cached before the
\* invalidation; the exact tier is not cleared: a get with the normalized
\* question, owner and filters of an earlier set returns the response of
\* the last such set, cached before the invalidation or not.
C25_OnlySemanticTierIsInvalidated ==
    sv_last # NoServiceGet =>
        LET same == { i \in 1..Len(sv_history) :
                        /\ sv_history[i].op = "set"
                        /\ sv_history[i].owner = sv_last.owner
                        /\ Normalize(sv_history[i].query) = Normalize(sv_last.query)
                        /\ sv_history[i].filters_hash = sv_last.filters_hash }
        IN  IF same # {}
            THEN /\ sv_last.cache_type = "exact"
                 /\ sv_last.response = Payload(CHOOSE i \in same : \A j \in same : j <= i)
            ELSE sv_last.response # NoPayload =>
                    /\ sv_last.cache_type = "semantic"
                    /\ sv_last.response.stamp > LastInvalidation(sv_last.owner)

\* A get after an invalidation and a later set of a similar question: the
\* exact tier answers with the response cached before the invalidation.
C25_Witness ==
    /\ sv_last.cache_type = "exact"
    /\ LastInvalidation(sv_last.owner) > 0
    /\ sv_last.response.stamp < LastInvalidation(sv_last.owner)
    /\ semantic_index[sv_last.owner] # <<>>

C26_InvalidateNotUndoneByConcurrentSet ==
    (cw_invalidated /\ \A w \in Writers : cw_pc[w] = "idle") =>
        \A i \in 1..Len(semantic_index[SharedOwner]) :
            semantic_index[SharedOwner][i] \notin cw_before

\* C28: when a retrieved result carries a sensibilidade that is missing or
\* is none of the three levels, analyze returns requires_local = TRUE.
C28_UnrecognisedLevelIsLocal ==
    (an_done /\ \E i \in 1..Len(an_results) :
                    an_results[i].sensibilidade \notin Sensibilidade) =>
        an_out.requires_local

\* C29: the record a call of index_single creates or updates has the owner
\* of the source entity named by (content_type, content_id).
C29_IndexedRecordHasOwnerOfEntity ==
    (ix_last # NoIndexCall /\ ix_last.after # ix_last.before) =>
        ix_last.after.owner = entities[ix_last.content_id].owner

\* The statement filters on owner_id and binds the member's id to it.
RestrictsToMember(query_result, member_id) ==
    /\ query_result.owner_filter
    /\ Len(query_result.params) >= 1
    /\ query_result.params[1] = MemberParam(member_id)

\* C30: every statement interpret(question, member_id) produces for a
\* recognised module restricts its rows to those owned by member_id, and
\* the question endpoint never reads a row of another member for its
\* response.
C30_StatementsRestrictedToCaller ==
    /\ (qi_pc \in {"interpreted", "responded"} /\ qi_result.kind = "statement") =>
           RestrictsToMember(qi_result, qi_member_id)
    /\ \A r \in qi_data : r.owner = qi_member_id

====
